---- MODULE Spec2Model ----
(***************************************************************************)
(* Extension (avatar pack) ingestion: SecurityService validators,          *)
(* DatabaseService object store, AvatarsService ingestion pipeline.        *)
(*                                                                         *)
(* Strings are sequences of one-character strings, so that the regular     *)
(* expressions and replacements of SecurityService are computed, not       *)
(* assumed.  JavaScript values are tagged records:                         *)
(*   [t |-> "undef"]  [t |-> "null"]  [t |-> "str", s |-> chars]           *)
(*   [t |-> "num", n |-> Int]  [t |-> "arr", items |-> Seq(value)]         *)
(*   [t |-> "obj", props |-> Seq(<<name, value>>)]  (insertion order)      *)
(*   [t |-> "blob", size |-> Nat, bytes |-> id]     (Blob host object)     *)
(*   [t |-> "file", name |-> chars, mime |-> chars, size |-> Nat,          *)
(*    bytes |-> id]                                 (File host object)     *)
(***************************************************************************)
EXTENDS Integers, Sequences, FiniteSets, TLC

\* const v = ...; F(v): a value computed once and used by what follows
With(v, F(_)) == F(v)

(***************************************************************************)
(* Characters                                                              *)
(***************************************************************************)
UpperSeq == <<"A","B","C","D","E","F","G","H","I","J","K","L","M",
              "N","O","P","Q","R","S","T","U","V","W","X","Y","Z">>
LowerSeq == <<"a","b","c","d","e","f","g","h","i","j","k","l","m",
              "n","o","p","q","r","s","t","u","v","w","x","y","z">>
Digits == {"0","1","2","3","4","5","6","7","8","9"}
UpperLetters == {UpperSeq[i] : i \in 1..26}
LowerLetters == {LowerSeq[i] : i \in 1..26}

\* String.prototype.toLowerCase, one character
ToLowerChar(c) ==
  IF c \in UpperLetters THEN LowerSeq[CHOOSE i \in 1..26 : UpperSeq[i] = c] ELSE c

toLowerCase(s) == [i \in 1..Len(s) |-> ToLowerChar(s[i])]

\* regular expression classes \w, \s and the line terminators "." excludes
IsWordChar(c) == c \in UpperLetters \cup LowerLetters \cup Digits \cup {"_"}
IsSpace(c) == c \in {" ", "\t", "\n", "\r"}
IsLineTerminator(c) == c \in {"\n", "\r"}

\* case-insensitive match of the lower-case literal lit at position i of s
MatchLitAt(s, i, lit) ==
  /\ i >= 1
  /\ i + Len(lit) - 1 <= Len(s)
  /\ \A j \in 1..Len(lit) : ToLowerChar(s[i + j - 1]) = lit[j]

\* first position >= i that satisfies a condition, 0 when there is none
FirstCharIn(s, i, set) ==
  IF \E j \in i..Len(s) : s[j] \in set
  THEN CHOOSE j \in i..Len(s) : s[j] \in set /\ \A k \in i..(j-1) : s[k] \notin set
  ELSE 0

FirstLitFrom(s, i, lit) ==
  IF \E j \in i..Len(s) : MatchLitAt(s, j, lit)
  THEN CHOOSE j \in i..Len(s) :
         MatchLitAt(s, j, lit) /\ \A k \in i..(j-1) : ~MatchLitAt(s, k, lit)
  ELSE 0

LastLitFrom(s, i, lit) ==
  IF \E j \in i..Len(s) : MatchLitAt(s, j, lit)
  THEN CHOOSE j \in i..Len(s) :
         MatchLitAt(s, j, lit) /\ \A k \in (j+1)..Len(s) : ~MatchLitAt(s, k, lit)
  ELSE 0

\* membership of a character in the class of a quantified sub-expression
InClass(c, kind) ==
  \/ (kind = "w" /\ IsWordChar(c))
  \/ (kind = "s" /\ IsSpace(c))
  \/ (kind = "sp" /\ (IsSpace(c) \/ c = "+"))

\* end of the maximal run of characters of a class starting at i (i-1 when empty)
RunEnd(s, i, kind) ==
  IF \E j \in i..Len(s) : ~InClass(s[j], kind)
  THEN (CHOOSE j \in i..Len(s) :
          ~InClass(s[j], kind) /\ \A k \in i..(j-1) : InClass(s[k], kind)) - 1
  ELSE IF i > Len(s) THEN i - 1 ELSE Len(s)

\* end of the line that contains position i-1 (last position before a terminator)
LineEnd(s, i) ==
  With(FirstCharIn(s, i, {"\n", "\r"}), LAMBDA t : IF t = 0 THEN Len(s) ELSE t - 1)

(***************************************************************************)
(* String literals used by the patterns                                    *)
(***************************************************************************)
Lit ==
  [ script |-> <<"s","c","r","i","p","t">>,
    iframe |-> <<"i","f","r","a","m","e">>,
    object |-> <<"o","b","j","e","c","t">>,
    embed |-> <<"e","m","b","e","d">>,
    link |-> <<"l","i","n","k">>,
    meta |-> <<"m","e","t","a">>,
    javascript |-> <<"j","a","v","a","s","c","r","i","p","t",":">>,
    vbscript |-> <<"v","b","s","c","r","i","p","t",":">>,
    datatexthtml |-> <<"d","a","t","a",":","t","e","x","t","/","h","t","m","l">>,
    data |-> <<"d","a","t","a",":">>,
    file |-> <<"f","i","l","e",":">>,
    ftp |-> <<"f","t","p",":">>,
    on |-> <<"o","n">>,
    href |-> <<"h","r","e","f">>,
    src |-> <<"s","r","c">>,
    exec |-> <<"e","x","e","c">>,
    pct27 |-> <<"%","2","7">>,
    pct3b |-> <<"%","3","b">> ]

\* SecurityService.XSS_PATTERNS, in order
XSS_PATTERNS ==
  << [kind |-> "pair", name |-> Lit.script],
     [kind |-> "pair", name |-> Lit.iframe],
     [kind |-> "pair", name |-> Lit.object],
     [kind |-> "tag", name |-> Lit.embed],
     [kind |-> "tag", name |-> Lit.link],
     [kind |-> "tag", name |-> Lit.meta],
     [kind |-> "lit", name |-> Lit.javascript],
     [kind |-> "lit", name |-> Lit.vbscript],
     [kind |-> "lit", name |-> Lit.datatexthtml],
     [kind |-> "on", name |-> Lit.on] >>

\* the attribute pattern sanitizeHtml applies after XSS_PATTERNS
ATTR_PATTERN == [kind |-> "attr", name |-> Lit.on]

\* /on\w+\s*=/ anchored at i : position of "=" or 0
OnHandlerEnd(s, i) ==
  IF ~MatchLitAt(s, i, Lit.on) THEN 0
  ELSE With(RunEnd(s, i + 2, "w"), LAMBDA w :
       With(RunEnd(s, w + 1, "s") + 1, LAMBDA e :
         IF w >= i + 2 /\ e <= Len(s) /\ s[e] = "=" THEN e ELSE 0))

\* /\s*(on\w+|href|src)\s*=\s*["'][^"']*["']/ anchored at i : end position or 0
AttrNameEnd(s, a) ==
  With(RunEnd(s, a + 2, "w"), LAMBDA w :
    IF MatchLitAt(s, a, Lit.on) /\ w >= a + 2 THEN w
    ELSE IF MatchLitAt(s, a, Lit.href) THEN a + 3
    ELSE IF MatchLitAt(s, a, Lit.src) THEN a + 2
    ELSE 0)

AttrEnd(s, i) ==
  With(AttrNameEnd(s, RunEnd(s, i, "s") + 1), LAMBDA nameEnd :
  With(RunEnd(s, nameEnd + 1, "s") + 1, LAMBDA eq :
  With(RunEnd(s, eq + 1, "s") + 1, LAMBDA q :
    IF nameEnd = 0 THEN 0
    ELSE IF eq > Len(s) \/ s[eq] # "=" THEN 0
    ELSE IF q > Len(s) \/ s[q] \notin {"\"", "'"} THEN 0
    ELSE FirstCharIn(s, q + 1, {"\"", "'"}))))

\* end position of a match of XSS pattern p anchored at position i, 0 if none
XssMatchEnd(p, s, i) ==
  LET open == <<"<">> \o p.name
      close == <<"<", "/">> \o p.name \o <<">">>
  IN CASE p.kind = "lit" -> IF MatchLitAt(s, i, p.name) THEN i + Len(p.name) - 1 ELSE 0
       [] p.kind = "tag" -> IF MatchLitAt(s, i, open)
                              THEN FirstCharIn(s, i + Len(open), {">"}) ELSE 0
       [] p.kind = "pair" ->
            IF ~MatchLitAt(s, i, open) THEN 0
            ELSE With(FirstCharIn(s, i + Len(open), {">"}), LAMBDA gt :
                 With(IF gt = 0 THEN 0 ELSE FirstLitFrom(s, gt + 1, close), LAMBDA c :
                   IF c = 0 THEN 0
                   ELSE IF \E k \in (gt+1)..(c-1) : IsLineTerminator(s[k]) THEN 0
                   ELSE c + Len(close) - 1))
       [] p.kind = "on" -> OnHandlerEnd(s, i)
       [] p.kind = "attr" -> AttrEnd(s, i)

\* start of the leftmost match of p at or after position i, 0 if none
FirstXssMatch(p, s, i) ==
  IF \E j \in i..Len(s) : XssMatchEnd(p, s, j) >= j
  THEN CHOOSE j \in i..Len(s) :
         XssMatchEnd(p, s, j) >= j /\ \A k \in i..(j-1) : XssMatchEnd(p, s, k) < k
  ELSE 0

\* String.prototype.replace(pattern, '') with a global pattern: the text
\* between successive leftmost matches is kept
RECURSIVE RemoveAll(_, _, _)
RECURSIVE RemoveFrom(_, _, _, _)
RemoveFrom(p, s, i, m) ==
  IF m = 0 THEN SubSeq(s, i, Len(s))
  ELSE SubSeq(s, i, m - 1) \o RemoveAll(p, s, XssMatchEnd(p, s, m) + 1)

RemoveAll(p, s, i) ==
  IF i > Len(s) THEN <<>> ELSE RemoveFrom(p, s, i, FirstXssMatch(p, s, i))

RECURSIVE RemovePatterns(_, _)
RemovePatterns(s, n) ==
  IF n > Len(XSS_PATTERNS) \/ Len(s) = 0 THEN s
  ELSE RemovePatterns(RemoveAll(XSS_PATTERNS[n], s, 1), n + 1)

\* the six entity replacements of sanitizeHtml ("&" first, so one pass per character)
EncodeChar(c) ==
  CASE c = "&" -> <<"&","a","m","p",";">>
    [] c = "<" -> <<"&","l","t",";">>
    [] c = ">" -> <<"&","g","t",";">>
    [] c = "\"" -> <<"&","q","u","o","t",";">>
    [] c = "'" -> <<"&","#","x","2","7",";">>
    [] c = "/" -> <<"&","#","x","2","F",";">>
    [] OTHER -> <<c>>

RECURSIVE EncodeEntities(_)
EncodeEntities(s) ==
  IF Len(s) = 0 THEN <<>>
  ELSE IF Len(s) = 1 THEN EncodeChar(s[1])
  ELSE EncodeEntities(SubSeq(s, 1, Len(s) \div 2))
         \o EncodeEntities(SubSeq(s, Len(s) \div 2 + 1, Len(s)))

\* SecurityService.sanitizeHtml on a string
sanitizeHtml(html) ==
  IF html = <<>> THEN <<>>
  ELSE EncodeEntities(RemoveAll(ATTR_PATTERN, RemovePatterns(html, 1), 1))

(***************************************************************************)
(* SecurityService.INJECTION_PATTERNS: seven global (/g) expressions used  *)
(* with RegExp.prototype.test, which starts at the expression's lastIndex  *)
(* and leaves the end of the match (or 0) in it.                           *)
(***************************************************************************)

INJECTION_PATTERNS ==
  << [kind |-> "chars", a |-> <<>>, b |-> <<>>],
     [kind |-> "exec", a |-> Lit.exec, b |-> <<>>],
     [kind |-> "span", a |-> <<"u","n","i","o","n">>, b |-> <<"s","e","l","e","c","t">>],
     [kind |-> "span", a |-> <<"i","n","s","e","r","t">>, b |-> <<"i","n","t","o">>],
     [kind |-> "span", a |-> <<"d","e","l","e","t","e">>, b |-> <<"f","r","o","m">>],
     [kind |-> "span", a |-> <<"u","p","d","a","t","e">>, b |-> <<"s","e","t">>],
     [kind |-> "span", a |-> <<"d","r","o","p">>, b |-> <<"t","a","b","l","e">>] >>

NumInjectionPatterns == Len(INJECTION_PATTERNS)

\* /('|(\\')|(;)|(\\);)|(\|)|(\*)|(%27)|(%3B)|(\+)/ anchored at i
InjCharsEnd(s, i) ==
  IF s[i] = "'" THEN i
  ELSE IF s[i] = "\\" /\ i < Len(s) /\ s[i + 1] = "'" THEN i + 1
  ELSE IF s[i] = ";" THEN i
  ELSE IF s[i] = "\\" /\ i < Len(s) /\ s[i + 1] = ";" THEN i + 1
  ELSE IF s[i] \in {"|", "*"} THEN i
  ELSE IF MatchLitAt(s, i, Lit.pct27) THEN i + 2
  ELSE IF MatchLitAt(s, i, Lit.pct3b) THEN i + 2
  ELSE IF s[i] = "+" THEN i
  ELSE 0

\* /exec(\s|\+)+(s|x)p\w+/ anchored at i
InjExecEnd(s, i) ==
  IF ~MatchLitAt(s, i, Lit.exec) THEN 0
  ELSE With(RunEnd(s, i + 4, "sp"), LAMBDA g :
         IF g < i + 4 THEN 0
         ELSE IF g + 2 > Len(s) THEN 0
         ELSE IF ToLowerChar(s[g + 1]) \notin {"s", "x"} THEN 0
         ELSE IF ToLowerChar(s[g + 2]) # "p" THEN 0
         ELSE With(RunEnd(s, g + 3, "w"), LAMBDA w : IF w < g + 3 THEN 0 ELSE w))

\* /a.*b/ anchored at i : "." stays on the line and ".*" is greedy
InjSpanEnd(p, s, i) ==
  IF ~MatchLitAt(s, i, p.a) THEN 0
  ELSE With(LastLitFrom(SubSeq(s, 1, LineEnd(s, i + Len(p.a))), i + Len(p.a), p.b),
            LAMBDA b : IF b = 0 THEN 0 ELSE b + Len(p.b) - 1)

InjMatchEnd(p, s, i) ==
  CASE p.kind = "chars" -> InjCharsEnd(s, i)
    [] p.kind = "exec" -> InjExecEnd(s, i)
    [] p.kind = "span" -> InjSpanEnd(p, s, i)

\* RegExp.prototype.test of a global expression: [hit, lastIndex']
RegExpTest(p, s, lastIndex) ==
  IF lastIndex > Len(s) THEN [hit |-> FALSE, lastIndex |-> 0]
  ELSE With([i \in (lastIndex + 1)..Len(s) |-> InjMatchEnd(p, s, i)], LAMBDA end :
         IF \E i \in DOMAIN end : end[i] > 0
           THEN [hit |-> TRUE,
                 lastIndex |-> end[CHOOSE i \in DOMAIN end :
                                     end[i] > 0 /\ \A k \in DOMAIN end : k < i => end[k] = 0]]
           ELSE [hit |-> FALSE, lastIndex |-> 0])

\* INJECTION_PATTERNS.some(pattern => pattern.test(value)); li is the tuple of
\* the seven lastIndex fields
RECURSIVE InjectionSome(_, _, _)
InjectionSome(s, li, n) ==
  IF n > NumInjectionPatterns THEN [hit |-> FALSE, li |-> li]
  ELSE With(RegExpTest(INJECTION_PATTERNS[n], s, li[n]), LAMBDA r :
         IF r.hit THEN [hit |-> TRUE, li |-> [li EXCEPT ![n] = r.lastIndex]]
         ELSE InjectionSome(s, [li EXCEPT ![n] = r.lastIndex], n + 1))

FreshLastIndex == [n \in 1..NumInjectionPatterns |-> 0]

(***************************************************************************)
(* JavaScript values                                                       *)
(***************************************************************************)
Undef == [t |-> "undef"]
Null == [t |-> "null"]
Str(s) == [t |-> "str", s |-> s]
Num(n) == [t |-> "num", n |-> n]
Arr(items) == [t |-> "arr", items |-> items]
Obj(props) == [t |-> "obj", props |-> props]
Blob(size, bytes) == [t |-> "blob", size |-> size, bytes |-> bytes]
File(name, mime, size, bytes) ==
  [t |-> "file", name |-> name, mime |-> mime, size |-> size, bytes |-> bytes]

IsStr(v) == v.t = "str"
\* typeof v === 'object' && v !== null
IsObjectLike(v) == v.t \in {"obj", "arr", "blob", "file"}
\* !v
Falsy(v) == v.t \in {"undef", "null"} \/ (v.t = "str" /\ v.s = <<>>) \/ (v.t = "num" /\ v.n = 0)

\* Object.keys / Object.entries: own enumerable properties in insertion order;
\* Blob and File expose size, type and name through prototype accessors only
Entries(v) == IF v.t = "obj" THEN v.props ELSE <<>>
HasOwn(v, name) == \E i \in 1..Len(Entries(v)) : Entries(v)[i][1] = name
\* v[name]
GetProp(v, name) ==
  IF HasOwn(v, name)
  THEN Entries(v)[CHOOSE i \in 1..Len(Entries(v)) : Entries(v)[i][1] = name][2]
  ELSE Undef
\* v[name] = x
SetProp(v, name, x) ==
  IF HasOwn(v, name)
  THEN Obj([i \in 1..Len(v.props) |->
              IF v.props[i][1] = name THEN <<name, x>> ELSE v.props[i]])
  ELSE Obj(Append(v.props, <<name, x>>))
\* delete v[name]
DeleteProp(v, name) == Obj(SelectSeq(v.props, LAMBDA e : e[1] # name))


(***************************************************************************)
(* SecurityService                                                         *)
(***************************************************************************)
MAX_FILE_SIZE == 10 * 1024 * 1024
MAX_STRING_LENGTH == 10000
MAX_ARRAY_LENGTH == 1000
MAX_OBJECT_DEPTH == 10
MAX_KEY_LENGTH == 64
MAX_DESCRIPTION_LENGTH == 500
MAX_IMAGES == 50

Prop ==
  [ key |-> <<"k","e","y">>,
    description |-> <<"d","e","s","c","r","i","p","t","i","o","n">>,
    images |-> <<"i","m","a","g","e","s">>,
    source |-> <<"s","o","u","r","c","e">>,
    type |-> <<"t","y","p","e">>,
    name |-> <<"n","a","m","e">>,
    avatarKey |-> <<"a","v","a","t","a","r","K","e","y">>,
    blob |-> <<"b","l","o","b">>,
    url |-> <<"u","r","l">>,
    local |-> <<"l","o","c","a","l">>,
    proto |-> <<"_","_","p","r","o","t","o","_","_">>,
    constructor |-> <<"c","o","n","s","t","r","u","c","t","o","r">>,
    prototype |-> <<"p","r","o","t","o","t","y","p","e">>,
    toString |-> <<"t","o","S","t","r","i","n","g">>,
    valueOf |-> <<"v","a","l","u","e","O","f">>,
    hasOwnProperty |-> <<"h","a","s","O","w","n","P","r","o","p","e","r","t","y">>,
    defineGetter |-> <<"_","_","d","e","f","i","n","e","G","e","t","t","e","r","_","_">>,
    defineSetter |-> <<"_","_","d","e","f","i","n","e","S","e","t","t","e","r","_","_">>,
    lookupGetter |-> <<"_","_","l","o","o","k","u","p","G","e","t","t","e","r","_","_">>,
    lookupSetter |-> <<"_","_","l","o","o","k","u","p","S","e","t","t","e","r","_","_">> ]

DANGEROUS_KEYS ==
  { Prop.proto, Prop.constructor, Prop.prototype, Prop.defineGetter, Prop.defineSetter,
    Prop.lookupGetter, Prop.lookupSetter, Prop.toString, Prop.valueOf, Prop.hasOwnProperty }

\* this.DANGEROUS_KEYS.includes(key.toLowerCase())
IsDangerousKey(key) == toLowerCase(key) \in DANGEROUS_KEYS

\* validateString(value, maxLength); li is the lastIndex tuple before the call
validateString(value, maxLength, li) ==
  IF value.t \in {"null", "undef"}
    THEN [isValid |-> FALSE, errors |-> <<"Value cannot be null or undefined">>, li |-> li]
  ELSE IF ~IsStr(value)
    THEN [isValid |-> FALSE, errors |-> <<"Value must be a string">>, li |-> li]
  ELSE IF Len(value.s) > maxLength
    THEN [isValid |-> FALSE, errors |-> <<"String exceeds maximum length">>, li |-> li]
  ELSE With(InjectionSome(value.s, li, 1), LAMBDA inj :
         IF inj.hit
           THEN [isValid |-> FALSE,
                 errors |-> <<"String contains potentially malicious content">>,
                 li |-> inj.li]
           ELSE [isValid |-> TRUE, errors |-> <<>>,
                 sanitizedValue |-> Str(sanitizeHtml(value.s)), li |-> inj.li])

\* validateObjectKeys(obj)
validateObjectKeys(obj) ==
  IF ~IsObjectLike(obj)
    THEN [isValid |-> FALSE, errors |-> <<"Value must be a valid object">>]
  ELSE LET bad == SelectSeq(Entries(obj), LAMBDA e : IsDangerousKey(e[1]))
       IN IF Len(bad) > 0
            THEN [isValid |-> FALSE,
                  errors |-> [i \in 1..Len(bad) |-> "Dangerous key is not allowed"]]
            ELSE [isValid |-> TRUE, errors |-> <<>>]

\* sanitizeObject(obj, depth), a string: the validation result r decides
SanitizedString(r) ==
  IF r.isValid THEN [ok |-> TRUE, val |-> r.sanitizedValue, li |-> r.li]
  ELSE [ok |-> FALSE, err |-> "Invalid string", li |-> r.li]

\* sanitizeObject(obj, depth): [ok |-> TRUE, val, li] on return,
\* [ok |-> FALSE, err, li] when it throws
RECURSIVE sanitizeObject(_, _, _)
RECURSIVE SanitizeItems(_, _, _, _)
RECURSIVE SanitizeEntries(_, _, _, _)
RECURSIVE SanitizeItemsNext(_, _, _, _)
RECURSIVE SanitizeEntriesNext(_, _, _, _)

sanitizeObject(obj, depth, li) ==
  IF depth > MAX_OBJECT_DEPTH
    THEN [ok |-> FALSE, err |-> "Object depth exceeds maximum allowed depth", li |-> li]
  ELSE IF obj.t \in {"null", "undef"} THEN [ok |-> TRUE, val |-> obj, li |-> li]
  ELSE IF obj.t = "arr"
    THEN IF Len(obj.items) > MAX_ARRAY_LENGTH
           THEN [ok |-> FALSE, err |-> "Array length exceeds maximum allowed length",
                 li |-> li]
           ELSE SanitizeItems(obj.items, depth, li, <<>>)
  ELSE IF obj.t = "str"
    THEN SanitizedString(validateString(obj, MAX_STRING_LENGTH, li))
  ELSE IF IsObjectLike(obj)
    THEN IF ~validateObjectKeys(obj).isValid
           THEN [ok |-> FALSE, err |-> "Invalid object keys", li |-> li]
           ELSE SanitizeEntries(Entries(obj), depth, li, <<>>)
  ELSE [ok |-> TRUE, val |-> obj, li |-> li]

\* obj.map(item => this.sanitizeObject(item, depth + 1)) : a throw ends the map
SanitizeItemsNext(items, depth, acc, r) ==
  IF r.ok THEN SanitizeItems(Tail(items), depth, r.li, Append(acc, r.val))
  ELSE r
SanitizeItems(items, depth, li, acc) ==
  IF items = <<>> THEN [ok |-> TRUE, val |-> Arr(acc), li |-> li]
  ELSE SanitizeItemsNext(items, depth, acc, sanitizeObject(Head(items), depth + 1, li))

SanitizeEntriesNext(entries, depth, acc, r) ==
  IF r.ok THEN SanitizeEntries(Tail(entries), depth, r.li,
                               Append(acc, <<Head(entries)[1], r.val>>))
  ELSE SanitizeEntries(Tail(entries), depth, r.li, acc)

\* the for loop over Object.entries(obj): a dangerous key is skipped, a property
\* whose sanitization throws is skipped (console.warn)
SanitizeEntries(entries, depth, li, acc) ==
  IF entries = <<>> THEN [ok |-> TRUE, val |-> Obj(acc), li |-> li]
  ELSE IF IsDangerousKey(Head(entries)[1])
    THEN SanitizeEntries(Tail(entries), depth, li, acc)
  ELSE SanitizeEntriesNext(entries, depth, acc,
                           sanitizeObject(Head(entries)[2], depth + 1, li))


\* s.includes(lit), case-sensitive
Includes(s, lit) ==
  \E i \in 1..(Len(s) - Len(lit) + 1) : SubSeq(s, i, i + Len(lit) - 1) = lit
\* s.startsWith(lit)
StartsWith(s, lit) == Len(s) >= Len(lit) /\ SubSeq(s, 1, Len(lit)) = lit
\* case-insensitive search, as /lit/i.test(s) of a fresh expression
TestLitI(s, lit) == FirstLitFrom(s, 1, lit) > 0
\* last position of a character, 0 when absent
LastCharPos(s, c) ==
  IF \E j \in 1..Len(s) : s[j] = c
  THEN CHOOSE j \in 1..Len(s) : s[j] = c /\ \A k \in (j+1)..Len(s) : s[k] # c
  ELSE 0

(***************************************************************************)
(* new URL(url) without a base, as far as validateUrl observes it: the     *)
(* scheme, and for the special schemes the host between the (optional)     *)
(* slashes and the next "/", "\", "?" or "#".                              *)
(***************************************************************************)
SpecialSchemes ==
  { <<"h","t","t","p">>, <<"h","t","t","p","s">>, <<"f","t","p">>,
    <<"w","s">>, <<"w","s","s">> }
ForbiddenHostChars ==
  {" ", "\t", "\n", "\r", "#", "/", ":", "<", ">", "?", "@", "[", "\\", "]", "^", "|", "%"}

RECURSIVE SkipSlashes(_, _)
SkipSlashes(s, i) ==
  IF i <= Len(s) /\ s[i] \in {"/", "\\"} THEN SkipSlashes(s, i + 1) ELSE i

\* the scheme of s ends before position colon
SchemeOk(s, colon) ==
  /\ colon > 1
  /\ s[1] \in UpperLetters \cup LowerLetters
  /\ \A j \in 2..(colon - 1) :
       s[j] \in UpperLetters \cup LowerLetters \cup Digits \cup {"+", "-", "."}

\* the authority of a special-scheme URL: user info is dropped, the port split off
ParseAuthority(scheme, authority) ==
  With(SubSeq(authority, LastCharPos(authority, "@") + 1, Len(authority)),
       LAMBDA hostport :
  With(LastCharPos(hostport, ":"), LAMBDA pc :
  With(IF pc = 0 THEN hostport ELSE SubSeq(hostport, 1, pc - 1), LAMBDA host :
  With(IF pc = 0 THEN <<>> ELSE SubSeq(hostport, pc + 1, Len(hostport)), LAMBDA port :
    IF host = <<>> \/ (\E j \in 1..Len(host) : host[j] \in ForbiddenHostChars)
       \/ (\E j \in 1..Len(port) : port[j] \notin Digits)
      THEN [ok |-> FALSE]
      ELSE [ok |-> TRUE, protocol |-> scheme \o <<":">>,
            hostname |-> toLowerCase(host)]))))

ParseUrl(s) ==
  With(FirstCharIn(s, 1, {":"}), LAMBDA colon :
  With(toLowerCase(SubSeq(s, 1, colon - 1)), LAMBDA scheme :
  With(SkipSlashes(s, colon + 1), LAMBDA a :
  With(FirstCharIn(s, a, {"/", "\\", "?", "#"}), LAMBDA stop :
    IF ~SchemeOk(s, colon) THEN [ok |-> FALSE]
    ELSE IF scheme \notin SpecialSchemes
      THEN [ok |-> TRUE, protocol |-> scheme \o <<":">>, hostname |-> <<>>]
    ELSE ParseAuthority(scheme,
                        SubSeq(s, a, IF stop = 0 THEN Len(s) ELSE stop - 1))))))

\* validateUrl(url)
validateUrl(url) ==
  IF Falsy(url) \/ ~IsStr(url)
    THEN [isValid |-> FALSE, errors |-> <<"URL must be a non-empty string">>]
  ELSE With(ParseUrl(url.s), LAMBDA u :
       LET e1 == IF u.protocol \notin { <<"h","t","t","p",":">>, <<"h","t","t","p","s",":">> }
                   THEN <<"Protocol is not allowed">> ELSE <<>>
           e2 == IF \E lit \in {Lit.javascript, Lit.data, Lit.vbscript, Lit.file, Lit.ftp} :
                      TestLitI(url.s, lit)
                   THEN <<"URL contains dangerous patterns">> ELSE <<>>
           e3 == IF \/ u.hostname = <<"l","o","c","a","l","h","o","s","t">>
                    \/ u.hostname = <<"1","2","7",".","0",".","0",".","1">>
                    \/ StartsWith(u.hostname, <<"1","9","2",".","1","6","8",".">>)
                    \/ StartsWith(u.hostname, <<"1","0",".">>)
                    \/ StartsWith(u.hostname, <<"1","7","2",".">>)
                   THEN <<"Local/private IP addresses are not allowed">> ELSE <<>>
       IN With(IF u.ok THEN e1 \o e2 \o e3 ELSE <<"Invalid URL format">>,
               LAMBDA errors :
                 IF Len(errors) > 0 THEN [isValid |-> FALSE, errors |-> errors]
                 ELSE [isValid |-> TRUE, errors |-> <<>>]))

\* SecurityService.ALLOWED_FILE_EXTENSIONS with validateMimeType's table
MimeExtensionMap ==
  { << <<".","j","s","o","n">>, <<"a","p","p","l","i","c","a","t","i","o","n","/","j","s","o","n">> >>,
    << <<".","j","s","o","n">>, <<"t","e","x","t","/","j","s","o","n">> >>,
    << <<".","p","n","g">>, <<"i","m","a","g","e","/","p","n","g">> >>,
    << <<".","j","p","g">>, <<"i","m","a","g","e","/","j","p","e","g">> >>,
    << <<".","j","p","e","g">>, <<"i","m","a","g","e","/","j","p","e","g">> >>,
    << <<".","g","i","f">>, <<"i","m","a","g","e","/","g","i","f">> >>,
    << <<".","w","e","b","p">>, <<"i","m","a","g","e","/","w","e","b","p">> >>,
    << <<".","s","v","g">>, <<"i","m","a","g","e","/","s","v","g","+","x","m","l">> >>,
    << <<".","m","p","3">>, <<"a","u","d","i","o","/","m","p","e","g">> >>,
    << <<".","w","a","v">>, <<"a","u","d","i","o","/","w","a","v">> >>,
    << <<".","o","g","g">>, <<"a","u","d","i","o","/","o","g","g">> >>,
    << <<".","t","x","t">>, <<"t","e","x","t","/","p","l","a","i","n">> >>,
    << <<".","m","d">>, <<"t","e","x","t","/","m","a","r","k","d","o","w","n">> >>,
    << <<".","m","d">>, <<"t","e","x","t","/","p","l","a","i","n">> >> }
ALLOWED_FILE_EXTENSIONS == {m[1] : m \in MimeExtensionMap}

validateMimeType(mimeType, extension) == <<extension, mimeType>> \in MimeExtensionMap

\* '.' + file.name.split('.').pop()?.toLowerCase()
FileExtension(name) ==
  <<".">> \o toLowerCase(SubSeq(name, LastCharPos(name, ".") + 1, Len(name)))

\* a validateFile that reports the errors without clearing isValid
validateFileLenient(file) ==
  [isValid |-> TRUE,
   errors |-> IF file.t # "file" THEN <<"Invalid file object">> ELSE <<>>]

\* validateFile(file)
validateFile(file) ==
  IF file.t # "file" THEN [isValid |-> FALSE, errors |-> <<"Invalid file object">>]
  ELSE With(FileExtension(file.name), LAMBDA extension :
       LET e1 == IF file.size > MAX_FILE_SIZE
                   THEN <<"File size exceeds maximum allowed size">> ELSE <<>>
           e2 == IF extension \notin ALLOWED_FILE_EXTENSIONS
                   THEN <<"File extension is not allowed">> ELSE <<>>
           e3 == IF \E key \in DANGEROUS_KEYS : Includes(toLowerCase(file.name), key)
                   THEN <<"File name contains dangerous keywords">> ELSE <<>>
           e4 == IF ~validateMimeType(file.mime, extension)
                   THEN <<"File MIME type does not match extension">> ELSE <<>>
       IN With(e1 \o e2 \o e3 \o e4, LAMBDA errors :
            IF Len(errors) > 0 THEN [isValid |-> FALSE, errors |-> errors]
            ELSE [isValid |-> TRUE, errors |-> <<>>]))

\* the checks of one entry of manifest.images
ImageErrors(image) ==
  IF ~IsObjectLike(image) THEN <<"Image must be an object">>
  ELSE LET key == GetProp(image, Prop.key)
           type == GetProp(image, Prop.type)
           source == GetProp(image, Prop.source)
           name == GetProp(image, Prop.name)
           isUrl == type = Str(Prop.url)
           isLocal == type = Str(Prop.local)
       IN (IF Falsy(key) \/ ~IsStr(key) THEN <<"Image missing valid key">> ELSE <<>>)
          \o (IF ~isUrl /\ ~isLocal THEN <<"Image must have type 'url' or 'local'">> ELSE <<>>)
          \o (IF isUrl /\ ~Falsy(source) /\ ~validateUrl(source).isValid
                THEN <<"Image has invalid URL">> ELSE <<>>)
          \o (IF isLocal /\ (Falsy(name) \/ ~IsStr(name))
                THEN <<"Local image must have a valid name">> ELSE <<>>)

RECURSIVE ImagesErrors(_)
ImagesErrors(items) ==
  IF items = <<>> THEN <<>> ELSE ImageErrors(Head(items)) \o ImagesErrors(Tail(items))

\* validateAvatarManifest(manifest); li is the lastIndex tuple before the call
validateAvatarManifest(manifest, li) ==
  IF ~IsObjectLike(manifest)
    THEN [isValid |-> FALSE, errors |-> <<"Manifest must be a valid object">>, li |-> li]
  ELSE
    With(GetProp(manifest, Prop.key), LAMBDA key :
    With(GetProp(manifest, Prop.description), LAMBDA description :
    With(GetProp(manifest, Prop.images), LAMBDA images :
    With(IF Falsy(key) THEN [isValid |-> TRUE, li |-> li]
         ELSE validateString(key, MAX_KEY_LENGTH, li), LAMBDA kv :
    With(IF Falsy(description) THEN [isValid |-> TRUE, li |-> kv.li]
         ELSE validateString(description, MAX_DESCRIPTION_LENGTH, kv.li), LAMBDA dv :
    With((IF Falsy(key) \/ ~IsStr(key)
            THEN <<"Required field 'key' is missing or invalid">> ELSE <<>>)
         \o (IF Falsy(description) \/ ~IsStr(description)
               THEN <<"Required field 'description' is missing or invalid">> ELSE <<>>)
         \o (IF kv.isValid THEN <<>> ELSE <<"Manifest key validation failed">>)
         \o (IF dv.isValid THEN <<>> ELSE <<"Manifest description validation failed">>)
         \o (IF Falsy(images) THEN <<>>
             ELSE IF images.t # "arr" THEN <<"Images must be an array">>
             ELSE IF Len(images.items) > MAX_IMAGES THEN <<"Too many images in manifest">>
             ELSE ImagesErrors(images.items)), LAMBDA errors :
      IF Len(errors) > 0 THEN [isValid |-> FALSE, errors |-> errors, li |-> dv.li]
      ELSE With(sanitizeObject(manifest, 0, dv.li), LAMBDA san :
             IF san.ok
               THEN [isValid |-> TRUE, errors |-> <<>>,
                     sanitizedValue |-> san.val, li |-> san.li]
               ELSE [isValid |-> FALSE, errors |-> <<"Manifest sanitization failed">>,
                     li |-> san.li])))))))


(***************************************************************************)
(* DatabaseService and the IndexedDB engine it wraps                       *)
(***************************************************************************)
MAX_STORE_NAME_LENGTH == 64
RESERVED_NAMES == { Prop.proto, Prop.constructor, Prop.prototype, Prop.toString, Prop.valueOf }

\* RESERVED_NAMES.includes(name.toLowerCase())
IsReservedName(name) == toLowerCase(name) \in RESERVED_NAMES

ABSTRACTS_STORE == <<"a","b","s","t","r","a","c","t","s">>
IMAGES_STORE == <<"i","m","a","g","e","s">>
\* a store without keyPath (out-of-line keys), as in the DatabaseService tests
TEST_STORE == <<"t","e","s","t","S","t","o","r","e">>
StoreNames == {ABSTRACTS_STORE, IMAGES_STORE, TEST_STORE}

\* options.keyPath of the stores AvatarsService declares; <<>> is "no keyPath"
KeyPathOf(storeName) ==
  IF storeName = ABSTRACTS_STORE THEN <<Prop.key>>
  ELSE IF storeName = IMAGES_STORE THEN <<Prop.key, Prop.avatarKey>>
  ELSE <<>>

\* validateStoreName(name): TRUE when it returns, FALSE when it throws
validateStoreName(name) ==
  /\ IsStr(name) /\ name.s # <<>>
  /\ Len(name.s) <= MAX_STORE_NAME_LENGTH
  /\ \A i \in 1..Len(name.s) : IsWordChar(name.s[i]) \/ name.s[i] = "-"
  /\ ~IsReservedName(name.s)

\* validateKey(key): TRUE when it returns, FALSE when it throws
validateKey(key) ==
  /\ key.t \notin {"null", "undef"}
  /\ ~(IsStr(key) /\ IsReservedName(key.s))
  /\ key.t = "arr" =>
       \A i \in 1..Len(key.items) :
         ~(IsStr(key.items[i]) /\ IsReservedName(key.items[i].s))

\* JSON.parse(JSON.stringify(data)): undefined properties vanish, undefined array
\* items become null, Blob and File become {}
RECURSIVE JsonClone(_)
JsonClone(v) ==
  IF v.t = "obj"
    THEN LET kept == SelectSeq(v.props, LAMBDA e : e[2].t # "undef")
         IN Obj([i \in 1..Len(kept) |-> <<kept[i][1], JsonClone(kept[i][2])>>])
  ELSE IF v.t = "arr"
    THEN Arr([i \in 1..Len(v.items) |->
                IF v.items[i].t = "undef" THEN Null ELSE JsonClone(v.items[i])])
  ELSE IF v.t \in {"blob", "file"} THEN Obj(<<>>)
  ELSE v

\* sanitizeData(data)
sanitizeData(data) ==
  IF data.t \in {"null", "undef"} THEN data
  ELSE LET clonedData == JsonClone(data)
       IN IF clonedData.t = "obj"
            THEN Obj(SelectSeq(clonedData.props, LAMBDA e : e[1] \notin RESERVED_NAMES))
            ELSE clonedData

\* IndexedDB: a valid key is a string, a number or an array of valid keys
RECURSIVE IsValidIdbKey(_)
IsValidIdbKey(k) ==
  \/ k.t \in {"str", "num"}
  \/ k.t = "arr" /\ \A i \in 1..Len(k.items) : IsValidIdbKey(k.items[i])

\* IndexedDB: the key a key path extracts from a value (Undef when it fails)
ExtractKey(value, keyPath) ==
  IF Len(keyPath) = 1 THEN GetProp(value, keyPath[1])
  ELSE Arr([i \in 1..Len(keyPath) |-> GetProp(value, keyPath[i])])

\* IDBObjectStore.add(value, key): a record with the key must not exist
EnginePutAdd(entries, keyPath, value, key) ==
  LET k == IF keyPath = <<>> THEN key ELSE ExtractKey(value, keyPath) IN
  IF keyPath # <<>> /\ key.t # "undef" THEN [ok |-> FALSE]
  ELSE IF ~IsValidIdbKey(k) THEN [ok |-> FALSE]
  ELSE IF \E e \in entries : e.k = k THEN [ok |-> FALSE]
  ELSE [ok |-> TRUE, entries |-> entries \cup {[k |-> k, v |-> value]}]

\* IDBObjectStore.put(value, key) on the entries of one store:
\* [ok |-> TRUE, entries] or [ok |-> FALSE] (DataError)
EnginePut(entries, keyPath, value, key) ==
  LET k == IF keyPath = <<>> THEN key ELSE ExtractKey(value, keyPath) IN
  IF keyPath # <<>> /\ key.t # "undef" THEN [ok |-> FALSE]
  ELSE IF ~IsValidIdbKey(k) THEN [ok |-> FALSE]
  ELSE [ok |-> TRUE,
        entries |-> {e \in entries : e.k # k} \cup {[k |-> k, v |-> value]}]

\* IDBObjectStore.get(key): the value or undefined
EngineGet(entries, key) ==
  IF \E e \in entries : e.k = key THEN (CHOOSE e \in entries : e.k = key).v ELSE Undef

EngineDelete(entries, key) == {e \in entries : e.k # key}

\* IDBIndex.getAllKeys(query) of an index on one property: primary keys
IndexGetAllKeys(entries, indexKeyPath, query) ==
  {e.k : e \in {x \in entries : GetProp(x.v, indexKeyPath) = query}}

\* the keys clearIndex deletes: those validateKey accepts
ClearIndexValidKeys(keys) == {k \in keys : validateKey(k)}

\* variant: a clearIndex that does not check indexQuery
ClearIndexArgsUnchecked(storeName, indexName, indexQuery) ==
  /\ validateStoreName(storeName)
  /\ ~Falsy(indexName) /\ IsStr(indexName)
  /\ ~IsReservedName(indexName.s)

\* clearIndex's synchronous argument checks: TRUE when none throws
ClearIndexArgsOk(storeName, indexName, indexQuery) ==
  /\ validateStoreName(storeName)
  /\ ~Falsy(indexName) /\ IsStr(indexName)
  /\ ~IsReservedName(indexName.s)
  /\ ~Falsy(indexQuery) /\ IsStr(indexQuery)

\* variant: a clearIndex that ignores indexQuery and empties the store
ClearIndexWholeStore(entries, indexName, indexQuery) == {}

\* the store after a clearIndex transaction that commits
ClearIndexResult(entries, indexName, indexQuery) ==
  LET keys == ClearIndexValidKeys(IndexGetAllKeys(entries, indexName.s, indexQuery))
  IN {e \in entries : e.k \notin keys}


(***************************************************************************)
(* SecurityService.checkRateLimit: rl is rateLimitMap, a function from the *)
(* keys seen so far to [count, resetTime]                                  *)
(***************************************************************************)
DEFAULT_WINDOW_MS == 60000
DOWNLOAD_LIMIT == 10
IMAGE_LIMIT == 50

\* checkRateLimit with a window that already ends at resetTime
checkRateLimitEarlyReset(key, maxRequests, windowMs, rl, t) ==
  IF key \notin DOMAIN rl \/ t >= rl[key].resetTime
    THEN [allowed |-> TRUE,
          rl |-> (key :> [count |-> 1, resetTime |-> t + windowMs]) @@ rl]
  ELSE IF rl[key].count >= maxRequests THEN [allowed |-> FALSE, rl |-> rl]
  ELSE [allowed |-> TRUE, rl |-> [rl EXCEPT ![key].count = @ + 1]]

\* checkRateLimit with one entry shared by all keys
checkRateLimitShared(key, maxRequests, windowMs, rl, t) ==
  IF <<>> \notin DOMAIN rl \/ t > rl[<<>>].resetTime
    THEN [allowed |-> TRUE,
          rl |-> (<<>> :> [count |-> 1, resetTime |-> t + windowMs]) @@ rl]
  ELSE IF rl[<<>>].count >= maxRequests THEN [allowed |-> FALSE, rl |-> rl]
  ELSE [allowed |-> TRUE, rl |-> [rl EXCEPT ![<<>>].count = @ + 1]]

\* checkRateLimit refusing one request later
checkRateLimitLax(key, maxRequests, windowMs, rl, t) ==
  IF key \notin DOMAIN rl \/ t > rl[key].resetTime
    THEN [allowed |-> TRUE,
          rl |-> (key :> [count |-> 1, resetTime |-> t + windowMs]) @@ rl]
  ELSE IF rl[key].count > maxRequests THEN [allowed |-> FALSE, rl |-> rl]
  ELSE [allowed |-> TRUE, rl |-> [rl EXCEPT ![key].count = @ + 1]]

\* checkRateLimit(key, maxRequests, windowMs)
checkRateLimit(key, maxRequests, windowMs, rl, t) ==
  IF key \notin DOMAIN rl \/ t > rl[key].resetTime
    THEN [allowed |-> TRUE,
          rl |-> (key :> [count |-> 1, resetTime |-> t + windowMs]) @@ rl]
  ELSE IF rl[key].count >= maxRequests THEN [allowed |-> FALSE, rl |-> rl]
  ELSE [allowed |-> TRUE, rl |-> [rl EXCEPT ![key].count = @ + 1]]

RatePrefix ==
  [ download |-> <<"d","o","w","n","l","o","a","d",":">>,
    image |-> <<"i","m","a","g","e",":">> ]

(***************************************************************************)
(* State                                                                   *)
(***************************************************************************)
VARIABLES
  db,            \* store name -> set of [k |-> primary key, v |-> value]
  lastIndex,     \* lastIndex of the seven INJECTION_PATTERNS expressions
  rateLimitMap,  \* SecurityService.rateLimitMap
  now,           \* Date.now()
  runs,          \* the calls of the public operations, by call id
  pending,       \* requests issued to the engine and not yet executed, oldest first
  faults,        \* engine failures so far
  calls,         \* number of calls of public operations made so far
  attempted,     \* history: manifest keys loadExtension was entered with
  ingested,      \* history: manifest keys of the ingestions that reported success
  stored,        \* history: the images that reached Stored since the images of
                 \* their extension were last cleared, with the bytes resolved
  rateLog        \* history: the direct calls of checkRateLimit, oldest first, as
                 \* [key, limit, t, allowed]; where downloads are counted, the
                 \* requests the pipeline had to decide on, allowed meaning that
                 \* the request was sent

vars == <<db, lastIndex, rateLimitMap, now, runs, pending, faults, calls,
          attempted, ingested, stored, rateLog>>


(***************************************************************************)
(* AvatarsService: one record per call of a public operation               *)
(*   pc      "idle", "fetchManifest", "reading", "clearing", "resolving",  *)
(*           "deleting", "getting", "done"                                 *)
(*   outcome "none", "success", "error" (error delivered through the       *)
(*           Observable/Promise), "threw" (synchronous throw)              *)
(*   imgs    one entry per def.images item: kind "url"/"local", st         *)
(*           "waiting", "fetching", "putting", "stored", "skipped",        *)
(*           "cancelled"; got is the Blob/File the asset resolved to       *)
(*   call, raw, valid, issued are history: the number of the call, the     *)
(*   manifest as received, what validateAvatarManifest said, the number of *)
(*   store requests the call issued                                        *)
(* A slot is reused by a later call once its call has ended; requests of   *)
(* an ended call that are still pending carry its call number.             *)
(***************************************************************************)
IdleRun ==
  [call |-> 0, op |-> "none", pc |-> "idle", outcome |-> "none", message |-> "",
   arg |-> Undef, raw |-> Undef, valid |-> "unknown", def |-> Undef,
   source |-> Undef, files |-> <<>>, clear |-> "none", abstract |-> "none",
   imgs |-> <<>>, issued |-> 0, result |-> Undef,
   \* the values the observable of the call has delivered to next(), and, for
   \* an import, how far each manifest file has come
   emitted |-> 0, parts |-> <<>>]

Request(id, tag, idx, store, kind, value, key) ==
  [run |-> id, call |-> runs[id].call, tag |-> tag, idx |-> idx, store |-> store, kind |-> kind,
   value |-> value, key |-> key]

\* the error callback of the caller's subscription / the rejected promise
Fail(run, message) ==
  IF run.outcome # "none" THEN run
  ELSE [run EXCEPT !.outcome = "error", !.message = message, !.pc = "done",
                   \* unsubscribing aborts the HTTP requests still in flight
                   !.imgs = [i \in 1..Len(run.imgs) |->
                               IF run.imgs[i].st \in {"fetching", "waiting"}
                                 THEN [run.imgs[i] EXCEPT !.st = "cancelled"]
                                 ELSE run.imgs[i]]]

\* handleError(operation) applied to an error that is not an HttpErrorResponse
GenericMessage(op) ==
  IF op = "download" THEN "Avatar download failed. Please try again."
  ELSE "Avatar import failed. Please try again."

\* merge(...).pipe(reduce(...)) completes when the abstract put and every image
\* have resolved
Finish(run) ==
  IF /\ run.outcome = "none"
     /\ run.clear = "ok"
     /\ run.abstract = "ok"
     /\ \A i \in 1..Len(run.imgs) : run.imgs[i].st \in {"stored", "skipped"}
  THEN [run EXCEPT !.outcome = "success", !.pc = "done", !.emitted = @ + 1]
  ELSE run

\* the object literal { key, avatarKey, source, blob } of loadExtension
ImageData(imageKey, avatarKey, source, blob) ==
  Obj(<< <<Prop.key, imageKey>>, <<Prop.avatarKey, avatarKey>>,
         <<Prop.source, source>>, <<Prop.blob, blob>> >>)

\* a loadExtension that starts the image fetches together with the clear
LoadExtensionEager(id, run, def, source, imageFiles, li) ==
  [run |-> [run EXCEPT !.def = def, !.source = source, !.files = imageFiles,
                       !.clear = "pending", !.abstract = "pending",
                       !.issued = @ + 2, !.pc = "clearing",
                       !.imgs = IF GetProp(def, Prop.images).t = "arr"
                                  THEN [i \in 1..Len(GetProp(def, Prop.images).items) |->
                                          [kind |-> "url", st |-> "fetching", got |-> Undef]]
                                  ELSE <<>>],
   li |-> li,
   reqs |-> << Request(id, "clear", 0, IMAGES_STORE, "clearIndex", Undef,
                       GetProp(def, Prop.key)) >>]

\* loadExtension(def, parameters), the statements of its try block
LoadExtension(id, run, def, source, imageFiles, li) ==
  LET key == GetProp(def, Prop.key)
      images == GetProp(def, Prop.images)
      clearReq == Request(id, "clear", 0, IMAGES_STORE, "clearIndex", Undef, key)
      started == [run EXCEPT !.def = def, !.source = source, !.files = imageFiles,
                             !.clear = "pending", !.abstract = "pending",
                             !.issued = @ + 2, !.pc = "clearing"]
      kinds == [i \in 1..Len(images.items) |->
                  [kind |-> IF GetProp(images.items[i], Prop.type) = Str(Prop.url)
                              THEN "url"
                            ELSE IF GetProp(images.items[i], Prop.type) = Str(Prop.local)
                              THEN "local" ELSE "other",
                   st |-> IF GetProp(images.items[i], Prop.type) \in {Str(Prop.url), Str(Prop.local)}
                            THEN "waiting" ELSE "skipped",
                   got |-> Undef]]
  IN IF ~ClearIndexArgsOk(Str(IMAGES_STORE), Str(Prop.avatarKey), key)
       \* clearIndex throws: "Extension loading failed", nothing was issued
       THEN [run |-> Fail([run EXCEPT !.def = def], GenericMessage(run.op)),
             li |-> li, reqs |-> <<>>]
     ELSE With(sanitizeObject(Obj(<< <<Prop.key, key>>,
                                     <<Prop.description, GetProp(def, Prop.description)>>,
                                     <<Prop.source, source>> >>), 0, li), LAMBDA san :
          With(<<clearReq, Request(id, "abstract", 0, ABSTRACTS_STORE, "put",
                                   sanitizeData(san.val), Undef)>>, LAMBDA reqs :
            IF images.t # "arr"
              \* def.images.filter throws after both requests were issued
              THEN [run |-> Fail(started, GenericMessage(run.op)),
                    li |-> san.li, reqs |-> reqs]
              ELSE [run |-> [started EXCEPT !.imgs = kinds],
                    li |-> san.li, reqs |-> reqs]))

\* urlImagePuts$ ending at the first image the rate limit refuses
RECURSIVE SubscribeUrlStop(_, _, _, _)
SubscribeUrlStop(run, i, rl, t) ==
  IF i > Len(run.imgs) THEN [run |-> run, rl |-> rl]
  ELSE IF run.imgs[i].kind # "url" THEN SubscribeUrlStop(run, i + 1, rl, t)
  ELSE LET imageSource == GetProp(GetProp(run.def, Prop.images).items[i], Prop.source)
           limit == checkRateLimit(RatePrefix.image \o imageSource.s, IMAGE_LIMIT,
                                   DEFAULT_WINDOW_MS, rl, t)
       IN IF ~validateUrl(imageSource).isValid
            THEN SubscribeUrlStop([run EXCEPT !.imgs[i].st = "skipped"], i + 1, rl, t)
          ELSE IF ~limit.allowed
            THEN [run |-> [run EXCEPT !.imgs =
                             [j \in 1..Len(run.imgs) |->
                                IF j >= i /\ run.imgs[j].kind = "url"
                                  THEN [run.imgs[j] EXCEPT !.st = "skipped"]
                                  ELSE run.imgs[j]]],
                  rl |-> limit.rl]
          ELSE SubscribeUrlStop([run EXCEPT !.imgs[i].st = "fetching"], i + 1, limit.rl, t)

\* urlImagePuts$ on subscription: images i..n of type url, in order
RECURSIVE SubscribeUrl(_, _, _, _)
SubscribeUrl(run, i, rl, t) ==
  IF i > Len(run.imgs) THEN [run |-> run, rl |-> rl]
  ELSE IF run.imgs[i].kind # "url" THEN SubscribeUrl(run, i + 1, rl, t)
  ELSE LET imageSource == GetProp(GetProp(run.def, Prop.images).items[i], Prop.source)
           limit == checkRateLimit(RatePrefix.image \o imageSource.s, IMAGE_LIMIT,
                                   DEFAULT_WINDOW_MS, rl, t)
       IN IF ~validateUrl(imageSource).isValid
            THEN SubscribeUrl([run EXCEPT !.imgs[i].st = "skipped"], i + 1, rl, t)
          ELSE IF ~limit.allowed
            THEN SubscribeUrl([run EXCEPT !.imgs[i].st = "skipped"], i + 1, limit.rl, t)
          ELSE SubscribeUrl([run EXCEPT !.imgs[i].st = "fetching"], i + 1, limit.rl, t)

\* imageFiles.find((file) => file.name === name)
FindFile(files, name) ==
  IF \E j \in 1..Len(files) : Str(files[j].name) = name
  THEN files[CHOOSE j \in 1..Len(files) :
               Str(files[j].name) = name
               /\ \A k \in 1..(j-1) : Str(files[k].name) # name]
  ELSE Undef

\* localImagePuts$ on subscription: images i..n of type local, in order
RECURSIVE SubscribeLocal(_, _, _, _, _)
SubscribeLocal(id, run, i, li, reqs) ==
  IF i > Len(run.imgs) THEN [run |-> run, li |-> li, reqs |-> reqs]
  ELSE IF run.imgs[i].kind # "local" THEN SubscribeLocal(id, run, i + 1, li, reqs)
  ELSE LET image == GetProp(run.def, Prop.images).items[i]
           imageFile == FindFile(run.files, GetProp(image, Prop.name))
       IN IF imageFile.t = "undef" \/ ~validateFile(imageFile).isValid
            THEN SubscribeLocal(id, [run EXCEPT !.imgs[i].st = "skipped"],
                                i + 1, li, reqs)
            ELSE With(sanitizeObject(ImageData(GetProp(image, Prop.key),
                                               GetProp(run.def, Prop.key), Null, imageFile),
                                     0, li), LAMBDA san :
                   IF ~san.ok
                     \* sanitizeObject throws inside the projection: the error
                     \* reaches catchError(handleError('loadExtension'))
                     THEN [run |-> Fail(run, GenericMessage(run.op)),
                           li |-> san.li, reqs |-> reqs]
                     ELSE SubscribeLocal(id, [run EXCEPT !.imgs[i].st = "putting",
                                                         !.imgs[i].got = imageFile,
                                                         !.issued = @ + 1],
                                         i + 1, san.li,
                                         Append(reqs, Request(id, "image", i, IMAGES_STORE,
                                                              "put", sanitizeData(san.val),
                                                              Undef))))

\* mergeMap(() => merge(abstractPut$, urlImagePuts$, localImagePuts$)) once
\* clearImages$ has emitted
SubscribeMerge(id, run, li, rl, t) ==
  With(SubscribeUrl([run EXCEPT !.pc = "resolving"], 1, rl, t), LAMBDA u :
  With(SubscribeLocal(id, u.run, 1, li, <<>>), LAMBDA l :
    [run |-> Finish(l.run), li |-> l.li, rl |-> u.rl, reqs |-> l.reqs]))


(***************************************************************************)
(* Inputs: the manifests a server or a manifest file can hold, the URLs    *)
(* and keys callers pass                                                   *)
(***************************************************************************)
MaxSlots == 1
MaxCalls == 2
MaxFaults == 1
BlobSize == 4

Sample ==
  [ av |-> <<"a","v">>,
    bv |-> <<"b","v">>,
    amp |-> <<"a","&","b">>,
    inj |-> <<"a",";","b">>,
    script |-> <<"<","s","c","r","i","p","t",">","a","l","e","r","t","(","1",")", "<","/","s","c","r","i","p","t",">">>,
    d |-> <<"d">>,
    RnD |-> <<"R","&","D">>,
    std |-> <<"s","t","d">>,
    alt |-> <<"a","l","t">>,
    pro |-> <<"p","r","o">>,
    png |-> <<"p",".","p","n","g">>,
    imagepng |-> <<"i","m","a","g","e","/","p","n","g">>,
    json |-> <<"m",".","j","s","o","n">>,
    appjson |-> <<"a","p","p","l","i","c","a","t","i","o","n","/","j","s","o","n">> ]
Url ==
  [ manifest |-> <<"h","t","t","p","s",":","/","/","h",".","i","o","/","m">>,
    bad |-> <<"f","t","p",":","/","/","h",".","i","o","/","m">>,
    img1 |-> <<"h","t","t","p","s",":","/","/","h",".","i","o","/","1">>,
    img2 |-> <<"h","t","t","p","s",":","/","/","h",".","i","o","/","2">> ]

UrlImage(key, source) ==
  Obj(<< <<Prop.type, Str(Prop.url)>>, <<Prop.key, Str(key)>>, <<Prop.source, Str(source)>> >>)
LocalImage(key, name) ==
  Obj(<< <<Prop.type, Str(Prop.local)>>, <<Prop.key, Str(key)>>, <<Prop.name, Str(name)>> >>)
Manifest(key, description, images) ==
  Obj(<< <<Prop.key, Str(key)>>, <<Prop.description, Str(description)>>,
         <<Prop.images, Arr(images)>> >>)

ImgStd == UrlImage(Sample.std, Url.img1)
ImgAlt == UrlImage(Sample.alt, Url.img2)
ImgCtor == UrlImage(Prop.constructor, Url.img1)
ImgPro == LocalImage(Sample.pro, Sample.png)

\* manifests a download can receive
UrlManifests ==
  { Manifest(Sample.av, Sample.d, <<ImgStd, ImgAlt>>),
    Manifest(Sample.av, Sample.RnD, <<ImgCtor>>),
    Manifest(Sample.bv, Sample.d, <<ImgStd>>),
    Manifest(Sample.amp, Sample.d, <<ImgStd>>),
    Manifest(Sample.script, Sample.d, <<ImgStd>>),
    Manifest(Sample.inj, Sample.d, <<ImgStd>>),
    Obj(<< <<Prop.key, Str(Sample.av)>>, <<Prop.description, Str(Sample.d)>> >>) }

\* what a manifest file can contain: JSON text of a manifest, other text, nothing
JsonText(value) == [kind |-> "json", value |-> value]
FileContents ==
  { JsonText(Manifest(Sample.av, Sample.d, <<ImgPro>>)),
    JsonText(Manifest(Sample.inj, Sample.d, <<ImgPro>>)),
    [kind |-> "garbage"], [kind |-> "empty"] }
ManifestFiles == {File(Sample.json, Sample.appjson, 1, c) : c \in FileContents}
ImageFile == File(Sample.png, Sample.imagepng, BlobSize, [kind |-> "image"])
ImageFileLists == { <<>>, <<ImageFile>> }

DownloadUrls == {Url.manifest, Url.bad}
DeleteKeys == {Sample.av, Sample.bv, Prop.constructor, Sample.inj, <<>>}
\* the (avatarKey, key) pairs getImage is called with
ImageKeys == { <<Sample.av, Sample.std>>, <<Sample.av, Sample.pro>>, <<Sample.av, Prop.constructor>>,
               <<Sample.bv, Sample.std>> }

RunIds == 1..MaxSlots
\* a caller makes a call once the calls made before have ended
CanStart(id) ==
  /\ calls < MaxCalls
  /\ \A j \in RunIds : runs[j].pc \in {"idle", "done"}
  /\ \A j \in 1..(id - 1) : runs[j].pc \notin {"idle", "done"}
NewRun(op, arg) == [IdleRun EXCEPT !.call = calls + 1, !.op = op, !.arg = arg]

\* the key of a sanitized manifest, when it has one
KeyOf(def) == IF IsStr(GetProp(def, Prop.key)) THEN {GetProp(def, Prop.key).s} ELSE {}

\* the ingestions that have reported success, after a step that takes run to new
IngestedAfter(run, new) ==
  IF /\ run.outcome = "none" /\ new.outcome = "success"
     /\ new.op \in {"download", "import"}
  THEN ingested \cup KeyOf(new.def)
  ELSE ingested


\* the images that have reached Stored and not been cleared, after the engine
\* has executed req: a committed clearIndex forgets the images of its extension,
\* an image put observed by its run records the bytes the asset resolved to
StoredAfter(req, ok) ==
  IF ~ok THEN stored
  ELSE IF req.kind = "clearIndex" THEN {f \in stored : f.avatarKey # req.key}
  ELSE IF req.tag = "image" /\ runs[req.run].call = req.call
    THEN {f \in stored :
            ~(f.avatarKey = GetProp(runs[req.run].def, Prop.key)
              /\ f.key = GetProp(GetProp(runs[req.run].def, Prop.images).items[req.idx],
                                 Prop.key))}
         \cup {[avatarKey |-> GetProp(runs[req.run].def, Prop.key),
                key |-> GetProp(GetProp(runs[req.run].def, Prop.images).items[req.idx],
                                Prop.key),
                blob |-> runs[req.run].imgs[req.idx].got]}
  ELSE stored


(***************************************************************************)
(* Actions                                                                 *)
(***************************************************************************)
Init ==
  /\ db = [n \in StoreNames |-> {}]
  /\ lastIndex = FreshLastIndex
  /\ rateLimitMap = <<>>
  /\ now = 0
  /\ runs = [id \in RunIds |-> IdleRun]
  /\ pending = <<>>
  /\ faults = 0
  /\ calls = 0
  /\ attempted = {}
  /\ ingested = {}
  /\ stored = {}
  /\ rateLog = <<>>

\* download(url) up to this.http.get: the URL check, the rate limit, the request
DownloadCall(id, url) ==
  /\ LET run == NewRun("download", Str(url))
         limit == checkRateLimit(RatePrefix.download \o url, DOWNLOAD_LIMIT,
                                 DEFAULT_WINDOW_MS, rateLimitMap, now)
     IN IF ~validateUrl(Str(url)).isValid
          THEN /\ runs' = [runs EXCEPT ![id] = Fail(run, "Invalid URL")]
               /\ UNCHANGED rateLimitMap
        ELSE IF ~limit.allowed
          THEN /\ runs' = [runs EXCEPT ![id] =
                             Fail(run, "Rate limit exceeded for download requests")]
               /\ rateLimitMap' = limit.rl
        ELSE /\ runs' = [runs EXCEPT ![id] = [run EXCEPT !.pc = "fetchManifest"]]
             /\ rateLimitMap' = limit.rl
  /\ calls' = calls + 1
  /\ UNCHANGED <<db, lastIndex, now, pending, faults, attempted, ingested, stored>>

Download(id, url) ==
  /\ CanStart(id)
  /\ DownloadCall(id, url)
  /\ UNCHANGED rateLog

\* the manifest request completes with a body: the mergeMap of download
ManifestResponse(id, manifest) ==
  /\ runs[id].pc = "fetchManifest"
  /\ With(validateAvatarManifest(manifest, lastIndex), LAMBDA v :
       IF ~v.isValid
         THEN /\ runs' = [runs EXCEPT ![id] =
                            Fail([runs[id] EXCEPT !.raw = manifest, !.valid = "invalid"],
                                 GenericMessage("download"))]
              /\ lastIndex' = v.li
              /\ UNCHANGED <<pending, attempted, stored, rateLog>>
         ELSE With(LoadExtension(id, [runs[id] EXCEPT !.raw = manifest,
                                                      !.valid = "valid"],
                                 v.sanitizedValue, runs[id].arg, <<>>, v.li), LAMBDA l :
                /\ runs' = [runs EXCEPT ![id] = l.run]
                /\ lastIndex' = l.li
                /\ pending' = pending \o l.reqs
                /\ attempted' = attempted \cup KeyOf(v.sanitizedValue)))
  /\ UNCHANGED <<db, rateLimitMap, now, faults, calls, ingested, stored, rateLog>>

\* the manifest request fails (HttpErrorResponse with status 0)
ManifestError(id) ==
  /\ runs[id].pc = "fetchManifest"
  /\ runs' = [runs EXCEPT ![id] =
                Fail(runs[id], "Network error. Please check your connection.")]
  /\ UNCHANGED <<db, lastIndex, rateLimitMap, now, pending, faults, calls,
                 attempted, ingested, stored, rateLog>>

\* import(files, imageFiles) with one manifest file, up to reader.readAsText
Import(id, file, imageFiles) ==
  /\ CanStart(id)
  /\ LET run == [NewRun("import", file) EXCEPT !.files = imageFiles]
     IN runs' = [runs EXCEPT ![id] =
                   IF ~validateFile(file).isValid
                     THEN Fail(run, GenericMessage("import"))
                     ELSE [run EXCEPT !.pc = "reading"]]
  /\ calls' = calls + 1
  /\ UNCHANGED <<db, lastIndex, rateLimitMap, now, pending, faults, attempted,
                 ingested, stored, rateLog>>

\* imageFiles filtered by validateFile, in order
ValidatedImageFiles(files) == SelectSeq(files, LAMBDA f : validateFile(f).isValid)

\* reader.onload: JSON.parse, validateAvatarManifest, loadExtension
FileRead(id) ==
  /\ runs[id].pc = "reading"
  /\ LET run == runs[id]
         content == run.arg.bytes
     IN IF ~(content.kind = "json" /\ IsObjectLike(content.value))
          THEN /\ runs' = [runs EXCEPT ![id] =
                             Fail([run EXCEPT !.valid = "parseError"],
                                  GenericMessage("import"))]
               /\ UNCHANGED <<lastIndex, pending, attempted, stored, rateLog>>
        ELSE With(validateAvatarManifest(content.value, lastIndex), LAMBDA v :
          IF ~v.isValid
            THEN /\ runs' = [runs EXCEPT ![id] =
                               Fail([run EXCEPT !.raw = content.value,
                                                !.valid = "invalid"],
                                    GenericMessage("import"))]
                 /\ lastIndex' = v.li
                 /\ UNCHANGED <<pending, attempted, stored, rateLog>>
            ELSE With(LoadExtension(id, [run EXCEPT !.raw = content.value,
                                                    !.valid = "valid"],
                                    v.sanitizedValue, Undef,
                                    ValidatedImageFiles(run.files), v.li), LAMBDA l :
                   /\ runs' = [runs EXCEPT ![id] = l.run]
                   /\ lastIndex' = l.li
                   /\ pending' = pending \o l.reqs
                   /\ attempted' = attempted \cup KeyOf(v.sanitizedValue)))
  /\ UNCHANGED <<db, rateLimitMap, now, faults, calls, ingested, stored, rateLog>>

\* the image request completes with a body of any size, which is stored
ImageResponseAnySize(id, i, size) ==
  /\ runs[id].pc = "resolving"
  /\ i \in 1..Len(runs[id].imgs)
  /\ runs[id].imgs[i].st = "fetching"
  /\ LET run == runs[id]
         blob == Blob(size, i)
         image == GetProp(run.def, Prop.images).items[i]
     IN With(sanitizeObject(ImageData(GetProp(image, Prop.key),
                                      GetProp(run.def, Prop.key),
                                      GetProp(image, Prop.source), blob),
                            0, lastIndex), LAMBDA san :
          /\ runs' = [runs EXCEPT ![id] =
                        [run EXCEPT !.imgs[i].st = "putting",
                                    !.imgs[i].got = blob, !.issued = @ + 1]]
          /\ lastIndex' = san.li
          /\ pending' = Append(pending,
                          Request(id, "image", i, IMAGES_STORE, "put",
                                  sanitizeData(san.val), Undef)))
  /\ ingested' = IngestedAfter(runs[id], runs'[id])
  /\ UNCHANGED <<db, rateLimitMap, now, faults, calls, attempted, stored, rateLog>>

\* an image request completes with a Blob: tap (size), switchMap (sanitize, put)
ImageResponse(id, i, size) ==
  /\ runs[id].pc = "resolving"
  /\ i \in 1..Len(runs[id].imgs)
  /\ runs[id].imgs[i].st = "fetching"
  /\ LET run == runs[id]
         blob == Blob(size, i)
         image == GetProp(run.def, Prop.images).items[i]
     IN IF size > MAX_FILE_SIZE
          THEN /\ runs' = [runs EXCEPT ![id] =
                             Finish([run EXCEPT !.imgs[i].st = "skipped",
                                                !.imgs[i].got = blob])]
               /\ UNCHANGED <<lastIndex, pending>>
          ELSE With(sanitizeObject(ImageData(GetProp(image, Prop.key),
                                             GetProp(run.def, Prop.key),
                                             GetProp(image, Prop.source), blob),
                                   0, lastIndex), LAMBDA san :
                 /\ runs' = [runs EXCEPT ![id] =
                               [run EXCEPT !.imgs[i].st = "putting",
                                           !.imgs[i].got = blob, !.issued = @ + 1]]
                 /\ lastIndex' = san.li
                 /\ pending' = Append(pending,
                                 Request(id, "image", i, IMAGES_STORE, "put",
                                         sanitizeData(san.val), Undef)))
  /\ ingested' = IngestedAfter(runs[id], runs'[id])
  /\ UNCHANGED <<db, rateLimitMap, now, faults, calls, attempted, stored, rateLog>>

\* an image request fails and the image is queued again
ImageErrorRetry(id, i) ==
  /\ runs[id].pc = "resolving"
  /\ i \in 1..Len(runs[id].imgs)
  /\ runs[id].imgs[i].st = "fetching"
  /\ runs' = [runs EXCEPT ![id].imgs[i].st = "waiting"]
  /\ UNCHANGED <<db, lastIndex, rateLimitMap, now, pending, faults, calls, attempted,
                 ingested, stored, rateLog>>

\* an image request fails: catchError, EMPTY
ImageError(id, i) ==
  /\ runs[id].pc = "resolving"
  /\ i \in 1..Len(runs[id].imgs)
  /\ runs[id].imgs[i].st = "fetching"
  /\ runs' = [runs EXCEPT ![id] = Finish([runs[id] EXCEPT !.imgs[i].st = "skipped"])]
  /\ ingested' = IngestedAfter(runs[id], runs'[id])
  /\ UNCHANGED <<db, lastIndex, rateLimitMap, now, pending, faults, calls, attempted, stored, rateLog>>

\* delete(key) up to the clearIndex call
Delete(id, key) ==
  /\ CanStart(id)
  /\ With(validateString(Str(key), MAX_KEY_LENGTH, lastIndex), LAMBDA v :
     LET run == NewRun("delete", Str(key))
     IN /\ lastIndex' = v.li
        /\ IF ~v.isValid
             THEN /\ runs' = [runs EXCEPT ![id] = Fail(run, "Invalid key")]
                  /\ UNCHANGED pending
           ELSE IF ~ClearIndexArgsOk(Str(IMAGES_STORE), Str(Prop.avatarKey), Str(key))
             THEN /\ runs' = [runs EXCEPT ![id] =
                                [run EXCEPT !.outcome = "threw", !.pc = "done",
                                   !.message = "Index query must be a non-empty string"]]
                  /\ UNCHANGED pending
           ELSE /\ runs' = [runs EXCEPT ![id] =
                              [run EXCEPT !.pc = "clearing", !.clear = "pending",
                                          !.issued = @ + 1]]
                /\ pending' = Append(pending,
                                [Request(id, "clear", 0, IMAGES_STORE, "clearIndex",
                                         Undef, Str(key)) EXCEPT !.call = calls + 1]))
  /\ calls' = calls + 1
  /\ UNCHANGED <<db, rateLimitMap, now, faults, attempted, ingested, stored, rateLog>>

\* getImage(avatarKey, imageKey) up to the get call
GetImage(id, avatarKey, imageKey) ==
  /\ CanStart(id)
  /\ With(validateString(Str(avatarKey), MAX_KEY_LENGTH, lastIndex), LAMBDA v1 :
     With(validateString(Str(imageKey), MAX_KEY_LENGTH, v1.li), LAMBDA v2 :
     LET key == Arr(<<Str(imageKey), Str(avatarKey)>>)
         run == NewRun("getImage", key)
     IN IF ~v1.isValid
          THEN /\ runs' = [runs EXCEPT ![id] = Fail(run, "Invalid avatar key")]
               /\ lastIndex' = v1.li
               /\ UNCHANGED pending
        ELSE IF ~v2.isValid
          THEN /\ runs' = [runs EXCEPT ![id] = Fail(run, "Invalid image key")]
               /\ lastIndex' = v2.li
               /\ UNCHANGED pending
        ELSE IF ~validateKey(key)
          THEN /\ runs' = [runs EXCEPT ![id] =
                             [run EXCEPT !.outcome = "threw", !.pc = "done",
                                !.message = "Array key is reserved and cannot be used"]]
               /\ lastIndex' = v2.li
               /\ UNCHANGED pending
        ELSE /\ runs' = [runs EXCEPT ![id] = [run EXCEPT !.pc = "getting",
                                                         !.issued = @ + 1]]
             /\ lastIndex' = v2.li
             /\ pending' = Append(pending,
                             [Request(id, "get", 0, IMAGES_STORE, "get", Undef, key)
                                EXCEPT !.call = calls + 1])))
  /\ calls' = calls + 1
  /\ UNCHANGED <<db, rateLimitMap, now, faults, attempted, ingested, stored, rateLog>>


\* the engine runs the transactions of one store in the order they were created
CanExecute(i) ==
  /\ i \in 1..Len(pending)
  /\ \A j \in 1..(i - 1) : pending[j].store # pending[i].store

RemoveAt(seq, i) == SubSeq(seq, 1, i - 1) \o SubSeq(seq, i + 1, Len(seq))

\* what the engine does with a request: [ok, entries (the store afterwards), result]
Execute(req, entries) ==
  CASE req.kind = "clearIndex" ->
         [ok |-> TRUE, result |-> Undef,
          entries |-> ClearIndexResult(entries, Str(Prop.avatarKey), req.key)]
    [] req.kind = "put" ->
         LET r == EnginePut(entries, KeyPathOf(req.store), req.value, req.key)
         IN IF r.ok THEN [ok |-> TRUE, result |-> Undef, entries |-> r.entries]
            ELSE [ok |-> FALSE, result |-> Undef, entries |-> entries]
    [] req.kind = "delete" ->
         IF IsValidIdbKey(req.key)
           THEN [ok |-> TRUE, result |-> Undef, entries |-> EngineDelete(entries, req.key)]
           ELSE [ok |-> FALSE, result |-> Undef, entries |-> entries]
    [] req.kind = "get" ->
         IF IsValidIdbKey(req.key)
           THEN [ok |-> TRUE, result |-> EngineGet(entries, req.key), entries |-> entries]
           ELSE [ok |-> FALSE, result |-> Undef, entries |-> entries]

\* the continuation of the promise of a request, in the call that issued it
Deliver(req, ok, result, li, rl, t) ==
  LET id == req.run
      run == runs[id]
      same == [run |-> run, li |-> li, rl |-> rl, reqs |-> <<>>]
  IN
  \* the call has ended and its slot is used by a later call: nothing observes
  \* the promise
  IF run.call # req.call THEN same ELSE
  CASE req.tag = "clear" /\ run.op \in {"download", "import"} ->
         IF ~ok THEN [same EXCEPT !.run = Fail([run EXCEPT !.clear = "failed"],
                                               GenericMessage(run.op))]
         ELSE IF run.outcome # "none" THEN [same EXCEPT !.run.clear = "ok"]
         ELSE With(SubscribeMerge(id, [run EXCEPT !.clear = "ok"], li, rl, t), LAMBDA m :
                \* abstractPut$ was rejected before the merge subscribed to it: its
                \* error arrives once the three sources are subscribed
                IF run.abstract = "failed"
                  THEN [m EXCEPT !.run = Fail(m.run, GenericMessage(run.op))]
                  ELSE m)
    [] req.tag = "clear" /\ run.op = "delete" ->
         \* .then(() => this.databaseService.delete(...)) / .catch(...)
         IF ~ok THEN [same EXCEPT !.run = Fail([run EXCEPT !.clear = "failed"],
                                               "Failed to delete avatar")]
         ELSE IF ~(validateStoreName(Str(ABSTRACTS_STORE)) /\ validateKey(run.arg))
           THEN [same EXCEPT !.run = Fail([run EXCEPT !.clear = "ok"],
                                          "Failed to delete avatar")]
         ELSE [same EXCEPT !.run = [run EXCEPT !.clear = "ok", !.pc = "deleting",
                                               !.abstract = "pending",
                                               !.issued = @ + 1],
                           !.reqs = << Request(id, "delete", 0, ABSTRACTS_STORE,
                                               "delete", Undef, run.arg) >>]
    [] req.tag = "abstract" ->
         IF run.clear = "pending"
           THEN [same EXCEPT !.run.abstract = IF ok THEN "ok" ELSE "failed"]
         ELSE IF ok THEN [same EXCEPT !.run = Finish([run EXCEPT !.abstract = "ok"])]
         ELSE [same EXCEPT !.run = Fail([run EXCEPT !.abstract = "failed"],
                                        GenericMessage(run.op))]
    [] req.tag = "image" ->
         \* a failed put is caught: the image is skipped
         [same EXCEPT !.run = Finish([run EXCEPT !.imgs[req.idx].st =
                                                   IF ok THEN "stored" ELSE "skipped"])]
    [] req.tag = "delete" ->
         IF ok THEN [same EXCEPT !.run = [run EXCEPT !.abstract = "ok",
                                                     !.outcome = "success",
                                                     !.pc = "done"]]
         ELSE [same EXCEPT !.run = Fail([run EXCEPT !.abstract = "failed"],
                                        "Failed to delete avatar")]
    [] req.tag = "get" ->
         IF ok THEN [same EXCEPT !.run = [run EXCEPT !.result = result,
                                                     !.outcome = "success",
                                                     !.pc = "done"]]
         ELSE [same EXCEPT !.run = Fail(run, "Failed to retrieve image")]

\* the engine executes the request at position i and its promise settles
EngineExecute(i) ==
  /\ CanExecute(i)
  /\ With(pending[i], LAMBDA req :
     With(Execute(req, db[req.store]), LAMBDA x :
     With(Deliver(req, x.ok, x.result, lastIndex, rateLimitMap, now), LAMBDA d :
        /\ db' = [db EXCEPT ![req.store] = x.entries]
        /\ runs' = [runs EXCEPT ![req.run] = d.run]
        /\ lastIndex' = d.li
        /\ rateLimitMap' = d.rl
        /\ pending' = RemoveAt(pending, i) \o d.reqs
        /\ ingested' = IngestedAfter(runs[req.run], d.run)
        /\ stored' = StoredAfter(req, x.ok))))
  /\ UNCHANGED <<now, faults, calls, attempted>>

EngineStep(i) == EngineExecute(i) /\ UNCHANGED rateLog

\* the engine fails the request at position i (request error, transaction abort):
\* the store is unchanged and the promise is rejected
EngineFault(i) ==
  /\ CanExecute(i)
  /\ faults < MaxFaults
  /\ With(pending[i], LAMBDA req :
     With(Deliver(req, FALSE, Undef, lastIndex, rateLimitMap, now), LAMBDA d :
        /\ runs' = [runs EXCEPT ![req.run] = d.run]
        /\ lastIndex' = d.li
        /\ rateLimitMap' = d.rl
        /\ pending' = RemoveAt(pending, i) \o d.reqs
        /\ ingested' = IngestedAfter(runs[req.run], d.run)))
  /\ faults' = faults + 1
  /\ UNCHANGED <<db, now, calls, attempted, stored, rateLog>>

Next ==
  \/ \E id \in RunIds, url \in DownloadUrls : Download(id, url)
  \/ \E id \in RunIds, m \in UrlManifests : ManifestResponse(id, m)
  \/ \E id \in RunIds : ManifestError(id)
  \/ \E id \in RunIds, f \in ManifestFiles, fs \in ImageFileLists : Import(id, f, fs)
  \/ \E id \in RunIds : FileRead(id)
  \/ \E id \in RunIds : \E i \in 1..Len(runs[id].imgs) : ImageResponse(id, i, BlobSize)
  \/ \E id \in RunIds : \E i \in 1..Len(runs[id].imgs) : ImageError(id, i)
  \/ \E id \in RunIds, k \in DeleteKeys : Delete(id, k)
  \/ \E id \in RunIds, k \in ImageKeys : GetImage(id, k[1], k[2])
  \/ \E i \in 1..Len(pending) : EngineStep(i)
  \/ \E i \in 1..Len(pending) : EngineFault(i)

Spec == Init /\ [][Next]_vars


(***************************************************************************)
(* DatabaseService called directly by a caller that awaits each promise    *)
(* before its next call: a call and the transaction it opens are one step. *)
(* The call record keeps op, arg = [store, value, key], outcome, result.   *)
(***************************************************************************)
\* records a caller stores
DbRecords ==
  { Obj(<< <<Prop.key, Str(Sample.std)>>, <<Prop.avatarKey, Str(Sample.av)>> >>),
    Obj(<< <<Prop.key, Str(Prop.constructor)>>, <<Prop.avatarKey, Str(Sample.av)>> >>),
    Obj(<< <<Prop.key, Str(Sample.std)>>, <<Prop.avatarKey, Str(Sample.bv)>> >>),
    Obj(<< <<Prop.key, Str(Sample.av)>>, <<Prop.description, Str(Sample.RnD)>> >>),
    Obj(<< <<Prop.key, Str(Sample.av)>>,
           <<Prop.source, Obj(<< <<Prop.constructor, Str(Sample.d)>> >>)>> >>) }
\* the optional key argument of put
DbPutKeys == {Undef, Str(Sample.av), Str(Prop.constructor), Str(Prop.toString)}
\* the key argument of get and delete
DbKeys == { Str(Sample.av), Str(Prop.constructor), Str(Prop.toString),
            Arr(<<Str(Sample.std), Str(Sample.av)>>),
            Arr(<<Str(Prop.constructor), Str(Sample.av)>>) }
\* the indexQuery argument of clearIndex
DbIndexQueries == {Str(Sample.av), Str(Sample.bv), Str(<<>>)}

DbCall(op, store, value, key) ==
  [NewRun(op, [store |-> store, value |-> value, key |-> key]) EXCEPT !.pc = "done"]

\* the promise of a call settles with what the engine did
DbSettled(run, x, message) ==
  IF x.ok THEN [run EXCEPT !.outcome = "success", !.result = x.result, !.issued = 1]
  ELSE [run EXCEPT !.outcome = "error", !.message = message, !.issued = 1]

\* a synchronous throw of the argument checks
DbThrew(run) == [run EXCEPT !.outcome = "threw"]

\* put(database, storeName, blob, key)
DbPut(id, store, r, k) ==
  /\ CanStart(id)
  /\ IF ~validateStoreName(Str(store)) \/ (k.t # "undef" /\ ~validateKey(k))
       THEN /\ runs' = [runs EXCEPT ![id] = DbThrew(DbCall("put", store, r, k))]
            /\ UNCHANGED db
       ELSE With(Execute([kind |-> "put", store |-> store,
                          value |-> sanitizeData(r), key |-> k], db[store]), LAMBDA x :
              /\ runs' = [runs EXCEPT ![id] =
                            DbSettled(DbCall("put", store, r, k), x,
                                      "Failed to store data in database")]
              /\ db' = [db EXCEPT ![store] = x.entries])
  /\ calls' = calls + 1
  /\ UNCHANGED <<lastIndex, rateLimitMap, now, pending, faults, attempted,
                 ingested, stored, rateLog>>

\* get(database, storeName, key)
DbGet(id, store, k) ==
  /\ CanStart(id)
  /\ runs' = [runs EXCEPT ![id] =
                IF ~validateStoreName(Str(store)) \/ ~validateKey(k)
                  THEN DbThrew(DbCall("get", store, Undef, k))
                  ELSE DbSettled(DbCall("get", store, Undef, k),
                                 Execute([kind |-> "get", store |-> store,
                                          value |-> Undef, key |-> k], db[store]),
                                 "Failed to retrieve data from database")]
  /\ calls' = calls + 1
  /\ UNCHANGED <<db, lastIndex, rateLimitMap, now, pending, faults, attempted,
                 ingested, stored, rateLog>>

\* delete(database, storeName, key)
DbDelete(id, store, k) ==
  /\ CanStart(id)
  /\ IF ~validateStoreName(Str(store)) \/ ~validateKey(k)
       THEN /\ runs' = [runs EXCEPT ![id] = DbThrew(DbCall("delete", store, Undef, k))]
            /\ UNCHANGED db
       ELSE With(Execute([kind |-> "delete", store |-> store,
                          value |-> Undef, key |-> k], db[store]), LAMBDA x :
              /\ runs' = [runs EXCEPT ![id] =
                            DbSettled(DbCall("delete", store, Undef, k), x,
                                      "Failed to delete data from database")]
              /\ db' = [db EXCEPT ![store] = x.entries])
  /\ calls' = calls + 1
  /\ UNCHANGED <<lastIndex, rateLimitMap, now, pending, faults, attempted,
                 ingested, stored, rateLog>>

\* clearIndex(database, "images", "avatarKey", indexQuery)
DbClearIndex(id, query) ==
  /\ CanStart(id)
  /\ IF ~ClearIndexArgsOk(Str(IMAGES_STORE), Str(Prop.avatarKey), query)
       THEN /\ runs' = [runs EXCEPT ![id] =
                          DbThrew(DbCall("clearIndex", IMAGES_STORE, Undef, query))]
            /\ UNCHANGED db
       ELSE With(Execute([kind |-> "clearIndex", store |-> IMAGES_STORE,
                          value |-> Undef, key |-> query], db[IMAGES_STORE]), LAMBDA x :
              /\ runs' = [runs EXCEPT ![id] =
                            DbSettled(DbCall("clearIndex", IMAGES_STORE, Undef, query), x,
                                      "Failed to clear index from database")]
              /\ db' = [db EXCEPT ![IMAGES_STORE] = x.entries])
  /\ calls' = calls + 1
  /\ UNCHANGED <<lastIndex, rateLimitMap, now, pending, faults, attempted,
                 ingested, stored, rateLog>>

NextDb ==
  \/ \E id \in RunIds, n \in StoreNames, r \in DbRecords, k \in DbPutKeys :
       DbPut(id, n, r, k)
  \/ \E id \in RunIds, n \in StoreNames, k \in DbKeys : DbGet(id, n, k)
  \/ \E id \in RunIds, n \in StoreNames, k \in DbKeys : DbDelete(id, n, k)
  \/ \E id \in RunIds, q \in DbIndexQueries : DbClearIndex(id, q)

SpecDb == Init /\ [][NextDb]_vars

(***************************************************************************)
(* SecurityService.checkRateLimit called directly, Date.now() advancing    *)
(* between the calls.                                                      *)
(***************************************************************************)
MaxRateCalls == 4
MaxSkew == 1

RateKeys == {Sample.av, Sample.bv}
RateLimits == {0, 1, 2}
\* the calls made: every limit on one key, and one limit on the other key
RateCalls ==
  {<<Sample.av, n>> : n \in RateLimits} \cup {<<Sample.bv, n>> : n \in RateLimits \ {0, 1}}

\* checkRateLimit(key, maxRequests) with the default window
RateCheck(key, maxRequests) ==
  /\ Len(rateLog) < MaxRateCalls
  /\ With(checkRateLimit(key, maxRequests, DEFAULT_WINDOW_MS, rateLimitMap, now),
          LAMBDA c :
       /\ rateLimitMap' = c.rl
       /\ rateLog' = Append(rateLog, [key |-> key, limit |-> maxRequests,
                                      t |-> now, allowed |-> c.allowed]))
  /\ UNCHANGED <<db, lastIndex, now, runs, pending, faults, calls, attempted,
                 ingested, stored>>

\* the instants Date.now() is read at: up to MaxSkew ms after the start and
\* after one window length
Instants == {w * DEFAULT_WINDOW_MS + e : w \in 0..1, e \in 0..MaxSkew}

\* time passes: Date.now() becomes t
Tick(t) ==
  /\ t > now
  /\ now' = t
  /\ UNCHANGED <<db, lastIndex, rateLimitMap, runs, pending, faults, calls,
                 attempted, ingested, stored, rateLog>>

NextRate ==
  \/ \E c \in RateCalls : RateCheck(c[1], c[2])
  \/ \E t \in Instants : Tick(t)

SpecRate == Init /\ [][NextRate]_vars

(***************************************************************************)
(* SecurityService.sanitizeObject and validateObjectKeys called directly.  *)
(* A cyclic object is given by its unfolding: sanitizeObject only reads    *)
(* the own properties of its argument, and it looks at no value below      *)
(* depth MAX_OBJECT_DEPTH + 1, so it cannot tell an object that is its own *)
(* "self" property from the unfolding of that object to that depth.        *)
(***************************************************************************)
SanText ==
  [ John |-> <<"J","o","h","n">>,
    bad |-> <<"b","a","d">>,
    safe |-> <<"s","a","f","e">>,
    test |-> <<"t","e","s","t">>,
    age |-> <<"a","g","e">>,
    user |-> <<"u","s","e","r">>,
    profile |-> <<"p","r","o","f","i","l","e">>,
    bio |-> <<"b","i","o">>,
    nested |-> <<"n","e","s","t","e","d">>,
    list |-> <<"l","i","s","t">>,
    self |-> <<"s","e","l","f">>,
    Constructor |-> <<"C","o","n","s","t","r","u","c","t","o","r">> ]

RECURSIVE DeepObj(_)
\* { nested: { nested: ... {} } } with n levels below the top
DeepObj(n) ==
  IF n = 0 THEN Obj(<<>>) ELSE Obj(<< <<SanText.nested, DeepObj(n - 1)>> >>)
RECURSIVE DeepArr(_)
\* [[...[]...]] with n levels below the top
DeepArr(n) == IF n = 0 THEN Arr(<<>>) ELSE Arr(<<DeepArr(n - 1)>>)
\* new Array(n).fill(0)
LongArr(n) == Arr([i \in 1..n |-> Num(0)])
\* { list: v }
InObj(v) == Obj(<< <<SanText.list, v>> >>)
RECURSIVE Unfolded(_)
\* obj = { name: 'test' }; obj.self = obj, unfolded n times
Unfolded(n) ==
  Obj(<< <<Prop.name, Str(SanText.test)>>,
         <<SanText.self, IF n = 0 THEN Obj(<<>>) ELSE Unfolded(n - 1)>> >>)
CyclicObj == Unfolded(MAX_OBJECT_DEPTH + 2)

\* values at and beyond the limits of depth and array length; they hold no
\* string and no reserved key
SanLimitValues ==
  { DeepObj(MAX_OBJECT_DEPTH), DeepObj(MAX_OBJECT_DEPTH + 1),
    DeepArr(MAX_OBJECT_DEPTH), DeepArr(MAX_OBJECT_DEPTH + 1),
    InObj(DeepArr(MAX_OBJECT_DEPTH)),
    LongArr(MAX_ARRAY_LENGTH + 1),
    InObj(LongArr(MAX_ARRAY_LENGTH + 1)), Arr(<<LongArr(MAX_ARRAY_LENGTH + 1)>>) }

\* objects with reserved keys next to ordinary keys, at the top, nested and in
\* an array
SanKeyValues ==
  { Obj(<< <<Prop.name, Str(SanText.John)>>, <<SanText.age, Num(30)>> >>),
    Obj(<< <<Prop.name, Str(SanText.John)>>, <<Prop.constructor, Str(SanText.bad)>>,
           <<SanText.age, Num(30)>> >>),
    Obj(<< <<SanText.user,
             Obj(<< <<Prop.name, Str(SanText.John)>>,
                    <<SanText.profile,
                      Obj(<< <<SanText.bio, Str(SanText.safe)>>,
                             <<Prop.constructor, Str(SanText.bad)>> >>)>> >>)>> >>),
    Obj(<< <<Prop.name, Str(SanText.John)>>, <<Prop.toString, Str(SanText.bad)>> >>),
    Obj(<< <<SanText.Constructor, Str(SanText.bad)>>, <<Prop.name, Str(SanText.John)>> >>),
    Arr(<< Str(SanText.safe),
           Obj(<< <<Prop.proto, Str(SanText.bad)>>, <<Prop.name, Str(SanText.John)>> >>),
           Str(SanText.safe) >>) }

\* { k: 1 } and { k: 1, name: 'John' } for every reserved key k as DANGEROUS_KEYS
\* spells it and in lower case
ReservedKeyObjs ==
  UNION { { Obj(<< <<k, Num(1)>> >>),
            Obj(<< <<k, Num(1)>>, <<Prop.name, Str(SanText.John)>> >>) } :
          k \in DANGEROUS_KEYS \cup {toLowerCase(d) : d \in DANGEROUS_KEYS} }

SanValues == SanLimitValues \cup SanKeyValues \cup ReservedKeyObjs \cup {CyclicObj}
\* what validateObjectKeys is called with: the values above and non-objects
KeysValues ==
  SanKeyValues \cup ReservedKeyObjs \cup {CyclicObj, Null, Undef, Str(SanText.safe), Num(30)}

\* a direct call of a SecurityService method with the argument value
SecCall(op, value) == [NewRun(op, value) EXCEPT !.pc = "done"]

\* sanitizeObject(obj)
SanitizeObjectRun(id, obj) ==
  /\ With(sanitizeObject(obj, 0, lastIndex), LAMBDA r :
       /\ runs' = [runs EXCEPT ![id] =
                     IF r.ok
                       THEN [SecCall("sanitizeObject", obj) EXCEPT
                               !.outcome = "success", !.result = r.val]
                       ELSE [SecCall("sanitizeObject", obj) EXCEPT
                               !.outcome = "threw", !.message = r.err]]
       /\ lastIndex' = r.li)
  /\ calls' = calls + 1
  /\ UNCHANGED <<db, rateLimitMap, now, pending, faults, attempted, ingested,
                 stored, rateLog>>
SanitizeObjectCall(id, obj) == CanStart(id) /\ SanitizeObjectRun(id, obj)

\* validateObjectKeys(obj)
ValidateObjectKeysCall(id, obj) ==
  /\ CanStart(id)
  /\ runs' = [runs EXCEPT ![id] =
                [SecCall("validateObjectKeys", obj) EXCEPT
                   !.outcome = "success",
                   !.valid = IF validateObjectKeys(obj).isValid
                               THEN "valid" ELSE "invalid"]]
  /\ calls' = calls + 1
  /\ UNCHANGED <<db, lastIndex, rateLimitMap, now, pending, faults, attempted,
                 ingested, stored, rateLog>>

NextSan ==
  \/ \E id \in RunIds, v \in SanValues : SanitizeObjectCall(id, v)
  \/ \E id \in RunIds, v \in KeysValues : ValidateObjectKeysCall(id, v)

SpecSan == Init /\ [][NextSan]_vars

(***************************************************************************)
(* DatabaseService.getDatabase, and the store operations when the engine   *)
(* fails a request.  The environment chooses what the engine does with the *)
(* request: "ok", or the name of the error it fails with.                  *)
(***************************************************************************)
MAX_DB_NAME_LENGTH == 64
MAX_INDEX_NAME_LENGTH == 64

DbText ==
  [ testDb |-> <<"t","e","s","t","D","b">>,
    indexes |-> <<"i","n","d","e","x","e","s">>,
    spaced |-> <<"b","a","d"," ","n","a","m","e">>,
    byKey |-> <<"b","y"," ","k","e","y","!">> ]
\* a name one character longer than the three length limits allow
LongName == [i \in 1..(MAX_STORE_NAME_LENGTH + 1) |-> "a"]

\* validateDatabaseName(name): TRUE when it returns, FALSE when it throws
validateDatabaseName(name) ==
  /\ IsStr(name) /\ name.s # <<>>
  /\ Len(name.s) <= MAX_DB_NAME_LENGTH
  /\ \A i \in 1..Len(name.s) : IsWordChar(name.s[i]) \/ name.s[i] = "-"
  /\ ~IsReservedName(name.s)

\* the checks of one index definition
IndexDefOk(indexDef) ==
  /\ IsObjectLike(indexDef)
  /\ IsStr(GetProp(indexDef, Prop.name)) /\ GetProp(indexDef, Prop.name).s # <<>>
  /\ Len(GetProp(indexDef, Prop.name).s) <= MAX_INDEX_NAME_LENGTH
  /\ ~IsReservedName(GetProp(indexDef, Prop.name).s)

\* the checks of one store definition
StoreDefOk(storeDef) ==
  /\ IsObjectLike(storeDef)
  /\ validateStoreName(GetProp(storeDef, Prop.name))
  /\ \/ Falsy(GetProp(storeDef, DbText.indexes))
     \/ /\ GetProp(storeDef, DbText.indexes).t = "arr"
        /\ \A i \in 1..Len(GetProp(storeDef, DbText.indexes).items) :
              IndexDefOk(GetProp(storeDef, DbText.indexes).items[i])

\* validateStoreDefinitions(stores): TRUE when it returns, FALSE when it throws
validateStoreDefinitions(stores) ==
  /\ stores.t = "arr" /\ stores.items # <<>>
  /\ \A i \in 1..Len(stores.items) : StoreDefOk(stores.items[i])

\* { name } and { name, indexes: [{ name: indexName }] }
StoreDef(name) == Obj(<< <<Prop.name, Str(name)>> >>)
IndexedStoreDef(name, indexName) ==
  Obj(<< <<Prop.name, Str(name)>>,
         <<DbText.indexes, Arr(<< Obj(<< <<Prop.name, Str(indexName)>> >>) >>)>> >>)

\* names that are well formed, malformed, too long and reserved
SampleNames ==
  { TEST_STORE, Prop.avatarKey, DbText.spaced, DbText.byKey, LongName, <<>>,
    Prop.constructor, Prop.toString, Prop.valueOf }
\* the stores argument of getDatabase
StoreDefinitions ==
  {Arr(<<>>), Arr(<<StoreDef(TEST_STORE), StoreDef(DbText.spaced)>>)}
    \cup {Arr(<<StoreDef(n)>>) : n \in SampleNames}
    \cup {Arr(<<IndexedStoreDef(IMAGES_STORE, n)>>) : n \in SampleNames}
DbNames == {DbText.testDb, DbText.spaced}
Versions == {Undef, Num(1), Num(0)}
\* what the engine does with a request
EngineErrors == {"QuotaExceededError", "UnknownError"}
EngineOutcomes == {"ok"} \cup EngineErrors

\* the event the engine passes to request.onerror
ErrorEvent(detail) == [t |-> "event", type |-> "error", error |-> detail]

\* getDatabase(name, stores, version)
DbOpen(id, name, stores, version, e) ==
  /\ CanStart(id)
  /\ runs' = [runs EXCEPT ![id] =
                IF \/ ~validateDatabaseName(Str(name))
                   \/ ~validateStoreDefinitions(stores)
                   \/ (version.t # "undef" /\ version.n < 1)
                  THEN DbThrew(DbCall("open", name, stores, version))
                ELSE IF e = "ok"
                  THEN [DbCall("open", name, stores, version) EXCEPT
                          !.outcome = "success", !.issued = 1]
                ELSE [DbCall("open", name, stores, version) EXCEPT
                        !.outcome = "error", !.issued = 1,
                        !.result = ErrorEvent(e)]]
  /\ calls' = calls + 1
  /\ UNCHANGED <<db, lastIndex, rateLimitMap, now, pending, faults, attempted,
                 ingested, stored, rateLog>>

\* the store operations and the message each throws from its catch
FailureMessage ==
  [ get |-> "Failed to retrieve data from database",
    getAllKeys |-> "Failed to retrieve keys from database",
    getAll |-> "Failed to retrieve all data from database",
    put |-> "Failed to store data in database",
    delete |-> "Failed to delete data from database",
    clear |-> "Failed to clear data from database",
    clearIndex |-> "Failed to clear index from database" ]
StoreOps == DOMAIN FailureMessage
KeyedOps == {"get", "put", "delete"}

\* a store operation whose request the engine fails with error e: the
\* rejection of toResult, or of the database promise, reaches the catch of
\* the operation
DbRejected(id, op, store, k, e) ==
  /\ CanStart(id)
  /\ runs' = [runs EXCEPT ![id] =
                IF \/ ~validateStoreName(Str(store))
                   \/ (op \in KeyedOps /\ ~validateKey(k))
                   \/ (op = "clearIndex" /\ Falsy(k))
                  THEN DbThrew(DbCall(op, store, Undef, k))
                  ELSE DbSettled(DbCall(op, store, Undef, k),
                                 [ok |-> FALSE], FailureMessage[op])]
  /\ calls' = calls + 1
  /\ UNCHANGED <<db, lastIndex, rateLimitMap, now, pending, faults, attempted,
                 ingested, stored, rateLog>>

NextEngine ==
  \/ \E id \in RunIds, n \in DbNames, d \in StoreDefinitions, v \in Versions,
        e \in EngineOutcomes : DbOpen(id, n, d, v, e)
  \/ \E id \in RunIds, op \in StoreOps, n \in StoreNames, k \in DbIndexQueries,
        e \in EngineErrors : DbRejected(id, op, n, k, e)

SpecEngine == Init /\ [][NextEngine]_vars

(***************************************************************************)
(* The validators of SecurityService called directly.  The run of a call   *)
(* holds the ValidationResult returned, as the record of its fields.       *)
(***************************************************************************)
\* the ValidationResult in r, without the lastIndex the model threads
ResultOf(r) == [f \in DOMAIN r \ {"li"} |-> r[f]]

\* a validator returned: the run of the call
Validated(op, value, r) ==
  [SecCall(op, value) EXCEPT
     !.outcome = "success",
     !.valid = IF r.isValid THEN "valid" ELSE "invalid",
     !.result = ResultOf(r)]

StringValues ==
  { Str(Sample.av), Str(Sample.inj), Str(Sample.amp), Str(Sample.script), Str(<<>>),
    Null, Undef, Num(30) }
FileValues ==
  ManifestFiles \cup
  { ImageFile, File(Sample.png, Sample.appjson, BlobSize, [kind |-> "image"]),
    File(Sample.av, Sample.imagepng, BlobSize, [kind |-> "image"]),
    File(Sample.png, Sample.imagepng, MAX_FILE_SIZE + 1, [kind |-> "image"]),
    Null, Str(Sample.png) }
UrlValues == {Str(Url.manifest), Str(Url.bad), Str(Url.img1), Str(Sample.av), Str(<<>>), Null}
ManifestValues ==
  UrlManifests \cup
  { Null, Str(Sample.av), Obj(<<>>),
    Manifest(Sample.av, Sample.d, <<UrlImage(Sample.std, Url.bad)>>),
    Manifest(Sample.av, Sample.d, <<ImgPro, Str(Sample.av)>>),
    Obj(<< <<Prop.key, Str(Sample.av)>>, <<Prop.description, Str(Sample.d)>>,
           <<Prop.constructor, Str(Sample.d)>> >>) }

\* validateString(value)
ValidateStringRun(id, value) ==
  /\ With(validateString(value, MAX_STRING_LENGTH, lastIndex), LAMBDA r :
       /\ runs' = [runs EXCEPT ![id] = Validated("validateString", value, r)]
       /\ lastIndex' = r.li)
  /\ calls' = calls + 1
  /\ UNCHANGED <<db, rateLimitMap, now, pending, faults, attempted, ingested,
                 stored, rateLog>>
ValidateStringCall(id, value) == CanStart(id) /\ ValidateStringRun(id, value)

\* validateFile(file)
ValidateFileCall(id, file) ==
  /\ CanStart(id)
  /\ runs' = [runs EXCEPT ![id] = Validated("validateFile", file, validateFile(file))]
  /\ calls' = calls + 1
  /\ UNCHANGED <<db, lastIndex, rateLimitMap, now, pending, faults, attempted,
                 ingested, stored, rateLog>>

\* validateUrl(url)
ValidateUrlCall(id, url) ==
  /\ CanStart(id)
  /\ runs' = [runs EXCEPT ![id] = Validated("validateUrl", url, validateUrl(url))]
  /\ calls' = calls + 1
  /\ UNCHANGED <<db, lastIndex, rateLimitMap, now, pending, faults, attempted,
                 ingested, stored, rateLog>>

\* validateAvatarManifest(manifest)
ValidateManifestCall(id, manifest) ==
  /\ CanStart(id)
  /\ With(validateAvatarManifest(manifest, lastIndex), LAMBDA r :
       /\ runs' = [runs EXCEPT ![id] = Validated("validateAvatarManifest", manifest, r)]
       /\ lastIndex' = r.li)
  /\ calls' = calls + 1
  /\ UNCHANGED <<db, rateLimitMap, now, pending, faults, attempted, ingested,
                 stored, rateLog>>

\* validateObjectKeys(obj), the result kept
ValidateKeysCall(id, obj) ==
  /\ CanStart(id)
  /\ runs' = [runs EXCEPT ![id] =
                Validated("validateObjectKeys", obj, validateObjectKeys(obj))]
  /\ calls' = calls + 1
  /\ UNCHANGED <<db, lastIndex, rateLimitMap, now, pending, faults, attempted,
                 ingested, stored, rateLog>>

NextVal ==
  \/ \E id \in RunIds, v \in StringValues : ValidateStringCall(id, v)
  \/ \E id \in RunIds, v \in FileValues : ValidateFileCall(id, v)
  \/ \E id \in RunIds, v \in UrlValues : ValidateUrlCall(id, v)
  \/ \E id \in RunIds, v \in ManifestValues : ValidateManifestCall(id, v)
  \/ \E id \in RunIds, v \in KeysValues : ValidateKeysCall(id, v)

SpecVal == Init /\ [][NextVal]_vars

(***************************************************************************)
(* import(files, imageFiles) with any number of manifest files: from(files) *)
(* and the two mergeMaps run one inner pipeline per file.  What            *)
(* loadExtension does with the stores is specified by Spec; here the       *)
(* observable it returns is taken by its outcome: one value and            *)
(* completion, or an error.                                                *)
(***************************************************************************)
MaxFiles == 2
ManifestFileLists ==
  UNION { [1..n -> ManifestFiles \cup {File(Sample.json, Sample.imagepng, 1, [kind |-> "empty"])}] :
          n \in 0..MaxFiles }

\* the subscriber of import receives an error: nothing is delivered after it
ImportFail(run, message) ==
  [run EXCEPT !.outcome = "error", !.message = message, !.pc = "done"]

\* import(files, imageFiles) up to reader.readAsText of every file
ImportFiles(id, files, imageFiles) ==
  /\ CanStart(id)
  /\ LET run == [NewRun("import", Arr(files)) EXCEPT !.files = imageFiles]
     IN runs' = [runs EXCEPT ![id] =
                   IF files = <<>>
                     THEN ImportFail(run, "No files provided for import")
                   ELSE IF \E j \in 1..Len(files) : ~validateFile(files[j]).isValid
                     THEN ImportFail(run, GenericMessage("import"))
                   ELSE [run EXCEPT !.pc = "reading",
                                    !.parts = [j \in 1..Len(files) |-> "reading"]]]
  /\ calls' = calls + 1
  /\ UNCHANGED <<db, lastIndex, rateLimitMap, now, pending, faults, attempted,
                 ingested, stored, rateLog>>

\* reader.onload of manifest file j: JSON.parse, validateAvatarManifest and the
\* call of loadExtension
ManifestRead(id, j) ==
  /\ runs[id].op = "import" /\ runs[id].outcome = "none"
  /\ j \in 1..Len(runs[id].parts)
  /\ runs[id].parts[j] = "reading"
  /\ LET run == runs[id]
         content == run.arg.items[j].bytes
     IN IF ~(content.kind = "json" /\ IsObjectLike(content.value))
          THEN /\ runs' = [runs EXCEPT ![id] = ImportFail(run, GenericMessage("import"))]
               /\ UNCHANGED lastIndex
        ELSE With(validateAvatarManifest(content.value, lastIndex), LAMBDA v :
               /\ runs' = [runs EXCEPT ![id] =
                             IF v.isValid THEN [run EXCEPT !.parts[j] = "loading"]
                             ELSE ImportFail(run, GenericMessage("import"))]
               /\ lastIndex' = v.li)
  /\ UNCHANGED <<db, rateLimitMap, now, pending, faults, calls, attempted,
                 ingested, stored, rateLog>>

\* the observable loadExtension returned for manifest file j ends: with one
\* value and completion (ok), or with an error
ManifestLoaded(id, j, ok) ==
  /\ runs[id].op = "import" /\ runs[id].outcome = "none"
  /\ j \in 1..Len(runs[id].parts)
  /\ runs[id].parts[j] = "loading"
  /\ runs' = [runs EXCEPT ![id] =
                IF ~ok THEN ImportFail(runs[id], GenericMessage("import"))
                ELSE IF \A k \in 1..Len(runs[id].parts) : k # j => runs[id].parts[k] = "emitted"
                  \* the last inner observable has completed: complete
                  THEN [runs[id] EXCEPT !.parts[j] = "emitted", !.emitted = @ + 1,
                                        !.outcome = "success", !.pc = "done"]
                ELSE [runs[id] EXCEPT !.parts[j] = "emitted", !.emitted = @ + 1]]
  /\ UNCHANGED <<db, lastIndex, rateLimitMap, now, pending, faults, calls, attempted,
                 ingested, stored, rateLog>>

NextImport ==
  \/ \E id \in RunIds, files \in ManifestFileLists, imageFiles \in ImageFileLists :
       ImportFiles(id, files, imageFiles)
  \/ \E id \in RunIds, j \in 1..MaxFiles : ManifestRead(id, j)
  \/ \E id \in RunIds, j \in 1..MaxFiles, ok \in BOOLEAN : ManifestLoaded(id, j, ok)

SpecImport == Init /\ [][NextImport]_vars


(***************************************************************************)
(* download(url) called again and again while Date.now() advances, by a    *)
(* caller that waits for the end of a download before the next.  The       *)
(* server answers every manifest request with the same manifest, the       *)
(* images arrive in the order requested and the engine executes the        *)
(* requests in the order issued.  rateLog records every manifest and image *)
(* request the pipeline had to decide on and whether it was sent.          *)
(***************************************************************************)
MaxDownloads == 12

ImgKey(n) == <<"k", <<"1","2","3","4","5","6","7">>[n]>>
\* six images of one asset URL, then one image of another
FetchManifest ==
  Manifest(Sample.av, Sample.d,
           [n \in 1..7 |-> UrlImage(ImgKey(n), IF n <= 6 THEN Url.img1 ELSE Url.img2)])
\* Date.now() is read at the start and once the first window is over
FetchInstants == {DEFAULT_WINDOW_MS + 1}

Decided(key, limit, sent) == [key |-> key, limit |-> limit, t |-> now, allowed |-> sent]

\* the image requests urlImagePuts$ decided on in a step that takes run to new
ImageDecisions(run, new) ==
  LET idx == SelectSeq([i \in 1..Len(run.imgs) |-> i],
                       LAMBDA i : /\ run.imgs[i].kind = "url"
                                  /\ run.imgs[i].st = "waiting"
                                  /\ new.imgs[i].st \in {"fetching", "skipped"})
  IN [n \in 1..Len(idx) |->
        Decided(RatePrefix.image
                  \o GetProp(GetProp(run.def, Prop.images).items[idx[n]], Prop.source).s,
                IMAGE_LIMIT, new.imgs[idx[n]].st = "fetching")]

FetchDownload(id, url) ==
  /\ calls < MaxDownloads
  /\ \A j \in RunIds : runs[j].pc \in {"idle", "done"}
  /\ \A j \in 1..(id - 1) : runs[j].pc \notin {"idle", "done"}
  /\ DownloadCall(id, url)
  \* a call that ends with "Invalid URL" never had a request to decide on
  /\ rateLog' = IF runs'[id].message = "Invalid URL" THEN rateLog
                ELSE Append(rateLog, Decided(RatePrefix.download \o url, DOWNLOAD_LIMIT,
                                             runs'[id].pc = "fetchManifest"))

FetchManifestResponse(id) == ManifestResponse(id, FetchManifest)

FetchImageResponse(id, i) ==
  /\ \A j \in 1..(i - 1) : runs[id].imgs[j].st # "fetching"
  /\ ImageResponse(id, i, BlobSize)

FetchEngineStep ==
  /\ pending # <<>>
  /\ EngineExecute(1)
  /\ rateLog' = rateLog \o ImageDecisions(runs[pending[1].run], runs'[pending[1].run])

FetchTick(t) ==
  /\ \A j \in RunIds : runs[j].pc \in {"idle", "done"}
  /\ Tick(t)

NextFetch ==
  \/ \E id \in RunIds, url \in DownloadUrls : FetchDownload(id, url)
  \/ \E id \in RunIds : FetchManifestResponse(id)
  \/ \E id \in RunIds : \E i \in 1..Len(runs[id].imgs) : FetchImageResponse(id, i)
  \/ FetchEngineStep
  \/ \E t \in FetchInstants : FetchTick(t)

SpecFetch == Init /\ [][NextFetch]_vars

(***************************************************************************)
(* Downloads of distinct manifest URLs started one after the other within  *)
(* a few milliseconds, as the test "should enforce rate limits for         *)
(* downloads" starts them.  download decides on the rate limit before it   *)
(* sends the request; here every request sent ends with a network error    *)
(* before the next download is started.                                    *)
(***************************************************************************)
BurstSize == 15

\* the URL of the n-th download
BurstUrl(n) == Url.manifest \o <<LowerSeq[n]>>

BurstDownload(id) ==
  /\ calls < BurstSize
  /\ \A j \in 1..(id - 1) : runs[j].pc \notin {"idle", "done"}
  /\ runs[id].pc \in {"idle", "done"}
  /\ DownloadCall(id, BurstUrl(calls + 1))
  /\ rateLog' = Append(rateLog, Decided(RatePrefix.download \o BurstUrl(calls + 1),
                                        DOWNLOAD_LIMIT, runs'[id].pc = "fetchManifest"))

BurstInstants == 1..MaxSkew

NextBurst ==
  \/ \E id \in RunIds : BurstDownload(id)
  \/ \E id \in RunIds : ManifestError(id)
  \/ \E t \in BurstInstants : Tick(t)

SpecBurst == Init /\ [][NextBurst]_vars

(***************************************************************************)
(* Ingestion of images of the sizes around MAX_FILE_SIZE: a download whose *)
(* image requests are answered with bodies of these sizes, an import with  *)
(* a local image file of these sizes.                                      *)
(***************************************************************************)
ImageSizes == {BlobSize, MAX_FILE_SIZE, MAX_FILE_SIZE + 1}
SizeManifests == { Manifest(Sample.bv, Sample.d, <<ImgStd, ImgAlt>>) }
SizeManifestFiles ==
  { File(Sample.json, Sample.appjson, 1, JsonText(Manifest(Sample.av, Sample.d, <<ImgPro>>))) }
SizeFileLists ==
  { <<File(Sample.png, Sample.imagepng, size, [kind |-> "image"])>> : size \in ImageSizes }

NextSize ==
  \/ \E id \in RunIds : Download(id, Url.manifest)
  \/ \E id \in RunIds, m \in SizeManifests : ManifestResponse(id, m)
  \/ \E id \in RunIds, f \in SizeManifestFiles, fs \in SizeFileLists : Import(id, f, fs)
  \/ \E id \in RunIds : FileRead(id)
  \/ \E id \in RunIds, size \in ImageSizes :
       \E i \in 1..Len(runs[id].imgs) : ImageResponse(id, i, size)
  \/ \E id \in RunIds : \E i \in 1..Len(runs[id].imgs) : ImageError(id, i)
  \/ \E i \in 1..Len(pending) : EngineStep(i)
  \/ \E i \in 1..Len(pending) : EngineFault(i)

SpecSize == Init /\ [][NextSize]_vars

(***************************************************************************)
(* One download and its replay: the same URL is downloaded a second time   *)
(* once the first download has ended, or after the page was reloaded       *)
(* while the first was under way (the stores survive, the services start   *)
(* anew, the requests not yet executed are lost).  The server answers the  *)
(* replay with the manifest it sent before and its image requests end as   *)
(* they did before; no storage request fails.  The first download uses    *)
(* slot 1, its replay slot 2.                                              *)
(***************************************************************************)
PairIds == {1, 2}

InitPair ==
  /\ db = [n \in StoreNames |-> {}]
  /\ lastIndex = FreshLastIndex
  /\ rateLimitMap = <<>>
  /\ now = 0
  /\ runs = [id \in PairIds |-> IdleRun]
  /\ pending = <<>>
  /\ faults = 0
  /\ calls = 0
  /\ attempted = {}
  /\ ingested = {}
  /\ stored = {}
  /\ rateLog = <<>>

ReplayManifests ==
  { Manifest(Sample.av, Sample.d, <<ImgStd, ImgAlt>>),
    Manifest(Sample.inj, Sample.d, <<ImgStd>>),
    Manifest(Sample.av, Sample.inj, <<>>),
    Obj(<< <<Prop.key, Str(Sample.av)>>, <<Prop.description, Str(Sample.d)>> >>) }

\* before the first download the caller may have called delete with a key
\* that validateString refuses
ReplayDelete == runs[1].op = "none" /\ Delete(1, Sample.inj)

ReplayDownload(id) ==
  /\ id = 1 => /\ runs[1].op \in {"none", "delete"}
               /\ runs[1].pc \in {"idle", "done"}
  /\ id = 2 => /\ runs[2].pc = "idle"
               /\ runs[1].op = "download" /\ runs[1].pc = "done"
  /\ DownloadCall(id, Url.manifest)
  /\ UNCHANGED rateLog

\* the manifest request of the replay fails when that of the first download did
ReplayManifestError(id) ==
  /\ id = 2 => runs[1].raw = Undef
  /\ ManifestError(id)

\* the page is reloaded while the first download is under way
ReplayReload ==
  /\ runs[1].pc \notin {"idle", "done"}
  /\ runs' = [runs EXCEPT ![1].pc = "done"]
  /\ pending' = <<>>
  /\ lastIndex' = FreshLastIndex
  /\ rateLimitMap' = <<>>
  /\ UNCHANGED <<db, now, faults, calls, attempted, ingested, stored, rateLog>>

\* the manifest request of the replay is answered as that of the first download
\* was, when it was answered
ReplayManifestResponse(id, m) ==
  /\ id = 2 /\ runs[1].raw # Undef => m = runs[1].raw
  /\ id = 2 => runs[1].outcome = "none" \/ runs[1].raw # Undef
  /\ ManifestResponse(id, m)

\* an image request of the replay ends as that of the first download did, when
\* it ended
ReplayImageResponse(id, i) ==
  /\ id = 2 /\ i <= Len(runs[1].imgs) =>
        ~(runs[1].imgs[i].st = "skipped" /\ runs[1].imgs[i].got = Undef)
  /\ ImageResponse(id, i, BlobSize)

ReplayImageError(id, i) ==
  /\ id = 2 /\ i <= Len(runs[1].imgs) => runs[1].imgs[i].got = Undef
  /\ ImageError(id, i)

NextReplay ==
  \/ ReplayDelete
  \/ \E id \in PairIds : ReplayDownload(id)
  \/ \E id \in PairIds : ReplayManifestError(id)
  \/ ReplayReload
  \/ \E id \in PairIds, m \in ReplayManifests : ReplayManifestResponse(id, m)
  \/ \E id \in PairIds : \E i \in 1..Len(runs[id].imgs) : ReplayImageResponse(id, i)
  \/ \E id \in PairIds : \E i \in 1..Len(runs[id].imgs) : ReplayImageError(id, i)
  \/ \E i \in 1..Len(pending) : EngineStep(i)

SpecReplay == InitPair /\ [][NextReplay]_vars

(***************************************************************************)
(* Two downloads of one extension under way at the same time: the server   *)
(* answers the first with a manifest that declares image std, the second   *)
(* with a manifest of the same key that declares image alt.  Their steps   *)
(* interleave at the manifest and image requests and at the store          *)
(* requests; no request fails.                                             *)
(***************************************************************************)
PairManifest(id) ==
  Manifest(Sample.av, Sample.d, IF id = 1 THEN <<ImgStd>> ELSE <<ImgAlt>>)

PairDownload(id) ==
  /\ runs[id].pc = "idle"
  /\ DownloadCall(id, Url.manifest)
  /\ UNCHANGED rateLog

PairManifestResponse(id) == ManifestResponse(id, PairManifest(id))

NextPair ==
  \/ \E id \in PairIds : PairDownload(id)
  \/ \E id \in PairIds : PairManifestResponse(id)
  \/ \E id \in PairIds : \E i \in 1..Len(runs[id].imgs) : ImageResponse(id, i, BlobSize)
  \/ \E i \in 1..Len(pending) : EngineStep(i)

SpecPair == InitPair /\ [][NextPair]_vars

(***************************************************************************)
(* Sanitizing what has been sanitized: sanitizeObject, or validateString,  *)
(* is called on a value, and then once more on what the first call         *)
(* returned, as loadExtension does with the fields of a manifest that      *)
(* validateAvatarManifest has sanitized.  The values are the strings of    *)
(* at most TwiceLen characters over a letter and markup characters, alone, *)
(* as a property and as an array item.                                     *)
(***************************************************************************)
TwiceLen == 3
TwiceChars == {"a", "&", "/", "<"}
TwiceStrings == UNION {[1..n -> TwiceChars] : n \in 0..TwiceLen}
TwiceValues ==
  {Str(s) : s \in TwiceStrings}
    \cup {Obj(<< <<Prop.name, Str(s)>> >>) : s \in TwiceStrings}
    \cup {Arr(<<Str(s)>>) : s \in TwiceStrings}

\* sanitizeObject(v)
TwiceSanitize(v) == runs[1].pc = "idle" /\ SanitizeObjectRun(1, v)
\* sanitizeObject(r), r the value the first call returned
TwiceSanitizeAgain ==
  /\ runs[1].op = "sanitizeObject" /\ runs[1].outcome = "success"
  /\ runs[2].pc = "idle"
  /\ SanitizeObjectRun(2, runs[1].result)
\* validateString(s)
TwiceValidate(s) == runs[1].pc = "idle" /\ ValidateStringRun(1, Str(s))
\* validateString(r.sanitizedValue), r the result of the first call
TwiceValidateAgain ==
  /\ runs[1].op = "validateString" /\ runs[1].valid = "valid"
  /\ runs[2].pc = "idle"
  /\ ValidateStringRun(2, runs[1].result.sanitizedValue)

NextTwice ==
  \/ \E v \in TwiceValues : TwiceSanitize(v)
  \/ TwiceSanitizeAgain
  \/ \E s \in TwiceStrings : TwiceValidate(s)
  \/ TwiceValidateAgain

SpecTwice == InitPair /\ [][NextTwice]_vars

(***************************************************************************)
(* The characters reducer (createReducer in the characters store).  A      *)
(* handler is an operator from the state and the properties of the action  *)
(* to [threw, ret, input]: whether it threw, the state it returned, and    *)
(* the value the state object it was given has once the handler has run.   *)
(* A handler that writes to an object of the given state shows in input;   *)
(* what it returns shares that object, so the write shows in ret as well.  *)
(***************************************************************************)
CharProp ==
  [ current |-> <<"c","u","r","r","e","n","t">>,
    characters |-> <<"c","h","a","r","a","c","t","e","r","s">>,
    stats |-> <<"s","t","a","t","s">>,
    relationshipLevel |-> <<"r","e","l","a","t","i","o","n","s","h","i","p","L","e","v","e","l">>,
    storyProgress |-> <<"s","t","o","r","y","P","r","o","g","r","e","s","s">>,
    firstName |-> <<"f","i","r","s","t","N","a","m","e">> ]
CharText ==
  [ char1 |-> <<"c","h","a","r","1">>,
    char2 |-> <<"c","h","a","r","2">>,
    John |-> <<"J","o","h","n">>,
    intelligence |-> <<"i","n","t","e","l","l","i","g","e","n","c","e">>,
    charisma |-> <<"c","h","a","r","i","s","m","a">>,
    newStat |-> <<"n","e","w","S","t","a","t">>,
    milestone |-> <<"f","i","r","s","t","_","m","e","e","t","i","n","g">>,
    null |-> <<"n","u","l","l">>,
    undefined |-> <<"u","n","d","e","f","i","n","e","d">>,
    object |-> <<"[","o","b","j","e","c","t"," ","O","b","j","e","c","t","]">>,
    function |-> <<"f","u","n","c","t","i","o","n"," ","O","b","j","e","c","t","(",")"," ","{"," ","[","n","a","t","i","v","e"," ","c","o","d","e","]"," ","}">> ]

\* Number.NaN
NaN == [t |-> "nan"]
\* Object, the constructor every plain object inherits, and Object.prototype
ObjectFn == [t |-> "fn"]
ObjectPrototype == [t |-> "proto"]

\* the property key a value used in obj[value] stands for
PropertyKey(v) ==
  IF v.t = "str" THEN v.s
  ELSE IF v.t = "null" THEN CharText.null
  ELSE CharText.undefined

\* obj[name] on a plain object: an own property, or else what Object.prototype
\* has under that name
Lookup(obj, name) ==
  IF obj.t = "obj" /\ HasOwn(obj, name) THEN GetProp(obj, name)
  ELSE IF obj.t = "obj" /\ name = Prop.constructor THEN ObjectFn
  ELSE IF obj.t = "obj" /\ name = Prop.proto THEN ObjectPrototype
  ELSE Undef

\* { ...v }: the own enumerable properties; none for undefined, null, a
\* function or Object.prototype
Spread(v) == IF v.t = "obj" THEN v ELSE Obj(<<>>)

\* String(n) for an integer n
RECURSIVE NatText(_)
NatText(n) ==
  IF n < 10 THEN <<<<"0","1","2","3","4","5","6","7","8","9">>[n + 1]>>
  ELSE NatText(n \div 10) \o NatText(n % 10)
NumText(n) == IF n < 0 THEN <<"-">> \o NatText(0 - n) ELSE NatText(n)

\* String(v) for what is not a number
TextOf(v) ==
  IF v.t = "str" THEN v.s
  ELSE IF v.t = "fn" THEN CharText.function
  ELSE CharText.object

\* v + amount, amount a number
Plus(v, amount) ==
  IF v.t = "num" THEN Num(v.n + amount)
  ELSE IF v.t = "null" THEN Num(amount)
  ELSE IF v.t \in {"undef", "nan"} THEN NaN
  ELSE Str(TextOf(v) \o NumText(amount))

\* obj[name] = x on a plain object: __proto__ is the accessor of
\* Object.prototype, which ignores a value that is neither an object nor null
Assign(obj, name, x) ==
  IF name = Prop.proto /\ ~HasOwn(obj, name)
    THEN IF x.t \in {"obj", "null", "proto"} THEN Obj(obj.props) ELSE obj
  ELSE SetProp(obj, name, x)

Returned(state, ret) == [threw |-> FALSE, ret |-> ret, input |-> state]
Thrown(state) == [threw |-> TRUE, ret |-> Undef, input |-> state]

initialState == Obj(<< <<CharProp.current, Null>>, <<CharProp.characters, Obj(<<>>)>> >>)

\* { ...state, characters: { ...state.characters, [characterKey]: character } }
WithCharacter(state, characterKey, character) ==
  SetProp(state, CharProp.characters,
          SetProp(Spread(GetProp(state, CharProp.characters)),
                  PropertyKey(characterKey), character))

\* const character = { ...state.characters[characterKey] }
CharacterCopy(state, characterKey) ==
  Spread(Lookup(GetProp(state, CharProp.characters), PropertyKey(characterKey)))

\* character.relationshipLevel || 0
LevelOrZero(character) ==
  IF Falsy(GetProp(character, CharProp.relationshipLevel)) THEN Num(0)
  ELSE GetProp(character, CharProp.relationshipLevel)

\* on(addCharacter, ...)
addCharacter(state, a) ==
  Returned(state, WithCharacter(state, Lookup(a.character, Prop.key), a.character))

\* on(removeCharacter, ...): the keys other than characterKey, in order
removeCharacter(state, a) ==
  Returned(state,
    SetProp(state, CharProp.characters,
            Obj(SelectSeq(GetProp(state, CharProp.characters).props,
                          LAMBDA e : Str(e[1]) # a.characterKey))))

\* on(setCurrentCharacter, ...)
setCurrentCharacter(state, a) ==
  Returned(state, SetProp(state, CharProp.current, a.characterKey))

\* character.stats[statKey] += amount on the character object of the state
StatsAfter(stats, a) ==
  Assign(stats, PropertyKey(a.statKey), Plus(Lookup(stats, PropertyKey(a.statKey)), a.amount))

\* on(adjustStat, ...): reading stats of undefined, or a property of an
\* undefined stats, is a TypeError; the character object is the one in
\* state.characters, written in place, and returned under [characterKey] of the
\* new state
adjustStat(state, a) ==
  LET characters == GetProp(state, CharProp.characters)
      character == Lookup(characters, PropertyKey(a.characterKey))
  IN IF character.t \in {"undef", "null"} THEN Thrown(state)
     ELSE IF Lookup(character, CharProp.stats).t # "obj" THEN Thrown(state)
     ELSE LET written == SetProp(character, CharProp.stats,
                                 StatsAfter(GetProp(character, CharProp.stats), a))
              input == SetProp(state, CharProp.characters,
                               SetProp(characters, PropertyKey(a.characterKey), written))
          IN [threw |-> FALSE,
              ret |-> SetProp(input, PropertyKey(a.characterKey), written),
              input |-> input]

\* on(improveRelationship, ...)
improveRelationship(state, a) ==
  Returned(state,
    WithCharacter(state, a.characterKey,
      SetProp(CharacterCopy(state, a.characterKey), CharProp.relationshipLevel,
              Plus(LevelOrZero(CharacterCopy(state, a.characterKey)), a.amount))))

\* on(updateStoryProgress, ...)
updateStoryProgress(state, a) ==
  Returned(state,
    WithCharacter(state, a.characterKey,
      SetProp(CharacterCopy(state, a.characterKey), CharProp.storyProgress,
              Num(a.progress))))

\* on(completeStoryMilestone, ...): the milestone bonus
completeStoryMilestone(state, a) ==
  Returned(state,
    WithCharacter(state, a.characterKey,
      SetProp(CharacterCopy(state, a.characterKey), CharProp.relationshipLevel,
              Plus(LevelOrZero(CharacterCopy(state, a.characterKey)), 10))))

(***************************************************************************)
(* reducer(state, action) called directly, as the reducer tests do.  The   *)
(* states are initialState and what addCharacter makes of it with the      *)
(* characters of the tests: with stats, with empty stats, without stats.   *)
(***************************************************************************)
Char1 ==
  Obj(<< <<Prop.key, Str(CharText.char1)>>, <<CharProp.firstName, Str(CharText.John)>>,
         <<CharProp.stats, Obj(<< <<CharText.intelligence, Num(50)>>,
                                  <<CharText.charisma, Num(30)>> >>)>> >>)
Char1NoStats ==
  Obj(<< <<Prop.key, Str(CharText.char1)>>, <<CharProp.firstName, Str(CharText.John)>>,
         <<CharProp.relationshipLevel, Num(20)>> >>)
Char1EmptyStats == Obj(<< <<Prop.key, Str(CharText.char1)>>, <<CharProp.stats, Obj(<<>>)>> >>)
Char2 ==
  Obj(<< <<Prop.key, Str(CharText.char2)>>,
         <<CharProp.stats, Obj(<< <<CharText.intelligence, Num(40)>> >>)>> >>)
Characters == {Char1, Char1NoStats, Char1EmptyStats, Char2}

Added(state, character) == addCharacter(state, [character |-> character]).ret
CharStates ==
  { initialState, Added(initialState, Char1), Added(initialState, Char1NoStats),
    Added(initialState, Char1EmptyStats), Added(Added(initialState, Char1), Char2) }
CharacterKeys ==
  {Str(CharText.char1), Str(CharText.char2), Str(<<>>), Null, Str(Prop.constructor)}
StatKeys ==
  { Str(CharText.intelligence), Str(CharText.newStat), Str(Prop.proto),
    Str(Prop.constructor), Str(Prop.prototype) }
Amounts == {10, -20}

\* reducer(state, action) has run with the outcome r
Reduced(op, state, a, r) ==
  /\ calls < MaxCalls
  /\ runs' = [runs EXCEPT ![1] =
                [SecCall(op, [t |-> "reduce", state |-> state, action |-> a]) EXCEPT
                   !.outcome = IF r.threw THEN "threw" ELSE "success",
                   !.result = r]]
  /\ calls' = calls + 1
  /\ UNCHANGED <<db, lastIndex, rateLimitMap, now, pending, faults, attempted,
                 ingested, stored, rateLog>>

AddCharacterCall(state, character) ==
  Reduced("addCharacter", state, [character |-> character],
          addCharacter(state, [character |-> character]))
RemoveCharacterCall(state, k) ==
  Reduced("removeCharacter", state, [characterKey |-> k],
          removeCharacter(state, [characterKey |-> k]))
SetCurrentCharacterCall(state, k) ==
  Reduced("setCurrentCharacter", state, [characterKey |-> k],
          setCurrentCharacter(state, [characterKey |-> k]))
AdjustStatCall(state, k, statKey, amount) ==
  Reduced("adjustStat", state, [characterKey |-> k, statKey |-> statKey, amount |-> amount],
          adjustStat(state, [characterKey |-> k, statKey |-> statKey, amount |-> amount]))
ImproveRelationshipCall(state, k, amount) ==
  Reduced("improveRelationship", state, [characterKey |-> k, amount |-> amount],
          improveRelationship(state, [characterKey |-> k, amount |-> amount]))
UpdateStoryProgressCall(state, k, progress) ==
  Reduced("updateStoryProgress", state, [characterKey |-> k, progress |-> progress],
          updateStoryProgress(state, [characterKey |-> k, progress |-> progress]))
CompleteStoryMilestoneCall(state, k) ==
  Reduced("completeStoryMilestone", state,
          [characterKey |-> k, milestone |-> Str(CharText.milestone)],
          completeStoryMilestone(state, [characterKey |-> k,
                                         milestone |-> Str(CharText.milestone)]))

NextChars ==
  \/ \E s \in CharStates, c \in Characters : AddCharacterCall(s, c)
  \/ \E s \in CharStates, k \in CharacterKeys : RemoveCharacterCall(s, k)
  \/ \E s \in CharStates, k \in CharacterKeys : SetCurrentCharacterCall(s, k)
  \/ \E s \in CharStates, k \in CharacterKeys, sk \in StatKeys, n \in Amounts :
       AdjustStatCall(s, k, sk, n)
  \/ \E s \in CharStates, k \in CharacterKeys, n \in Amounts :
       ImproveRelationshipCall(s, k, n)
  \/ \E s \in CharStates, k \in CharacterKeys : UpdateStoryProgressCall(s, k, 50)
  \/ \E s \in CharStates, k \in CharacterKeys : CompleteStoryMilestoneCall(s, k)

SpecChars == Init /\ [][NextChars]_vars

(***************************************************************************)
(* Properties                                                              *)
(***************************************************************************)
\* getAbstracts(): the records of the abstracts store
getAbstracts == {e.v : e \in db[ABSTRACTS_STORE]}

\* the ImageRecords of extension K (index "avatarKey") in a content of the
\* images store
ImagesOf(entries, K) == {e.v : e \in {x \in entries : GetProp(x.v, Prop.avatarKey) = K}}

IsIngest(run) == run.op \in {"download", "import"}

\* the keys of the images of a run that are in one of the given states
ImageKeysIn(run, states) ==
  {GetProp(GetProp(run.def, Prop.images).items[i], Prop.key) :
     i \in {j \in 1..Len(run.imgs) : run.imgs[j].st \in states}}

\* C1: a download whose manifest passed validation and whose store requests
\* all succeeded ends with success whichever of its image fetches failed;
\* getAbstracts() then holds a record with the manifest's key, and the
\* ImageRecords of that key are exactly the images whose fetch succeeded
C1_PartialFailureIngestion ==
  \A id \in RunIds :
    (/\ runs[id].op = "download" /\ runs[id].pc = "done"
     /\ runs[id].valid = "valid" /\ faults = 0 /\ pending = <<>>)
    => /\ runs[id].outcome = "success"
       /\ \E a \in getAbstracts : GetProp(a, Prop.key) = GetProp(runs[id].raw, Prop.key)
       /\ {GetProp(r, Prop.key) :
             r \in ImagesOf(db[IMAGES_STORE], GetProp(runs[id].raw, Prop.key))}
            = {GetProp(GetProp(runs[id].raw, Prop.images).items[i], Prop.key) :
                 i \in {j \in 1..Len(runs[id].imgs) :
                          runs[id].imgs[j].got.t = "blob"}}

Rejected(run) ==
  \/ run.valid \in {"invalid", "parseError"}
  \/ run.valid = "valid" /\ GetProp(run.def, Prop.key) = Str(<<>>)

C3_ReingestReplacesImages ==
  [][\A id \in RunIds :
       (/\ IsIngest(runs'[id])
        /\ runs[id].outcome = "none" /\ runs'[id].outcome = "success"
        /\ KeyOf(runs'[id].def) \subseteq ingested)
       => {GetProp(r, Prop.key) :
             r \in ImagesOf(db'[IMAGES_STORE], GetProp(runs'[id].def, Prop.key))}
            = ImageKeysIn(runs'[id], {"stored"})]_vars

\* C4: delete(K) of a key K that was ingested successfully succeeds (no
\* store request failing) and leaves no AbstractRecord with key K and no
\* ImageRecord with avatarKey K
C4_DeleteRemovesExtension ==
  \A id \in RunIds :
    (/\ runs[id].op = "delete" /\ runs[id].pc = "done"
     /\ runs[id].arg.s \in ingested /\ faults = 0 /\ pending = <<>>)
    => /\ runs[id].outcome = "success"
       /\ \A a \in getAbstracts : GetProp(a, Prop.key) # runs[id].arg
       /\ ImagesOf(db[IMAGES_STORE], runs[id].arg) = {}

\* C5: getImage(e, k) of an image that reached Stored (and has not been
\* cleared since) returns the record with key k, avatarKey e and the bytes
\* the asset resolved to
C5_GetImageReturnsBytes ==
  \A id \in RunIds : \A f \in stored :
    (/\ runs[id].op = "getImage" /\ runs[id].pc = "done"
     /\ runs[id].arg = Arr(<<f.key, f.avatarKey>>) /\ faults = 0)
    => /\ runs[id].outcome = "success"
       /\ GetProp(runs[id].result, Prop.key) = f.key
       /\ GetProp(runs[id].result, Prop.avatarKey) = f.avatarKey
       /\ GetProp(runs[id].result, Prop.blob) = f.blob

\* C6: after a successful ingestion the abstracts store holds exactly one
\* record with the validated manifest's key; its description is the validated
\* manifest's description and its source is the source of the ingestion
C6_AbstractRecordFields ==
  \A id \in RunIds :
    (/\ IsIngest(runs[id]) /\ runs[id].pc = "done"
     /\ runs[id].outcome = "success" /\ pending = <<>>)
    => /\ Cardinality({a \in getAbstracts :
                         GetProp(a, Prop.key) = GetProp(runs[id].def, Prop.key)}) = 1
       /\ \A a \in getAbstracts :
            GetProp(a, Prop.key) = GetProp(runs[id].def, Prop.key)
            => /\ GetProp(a, Prop.description) = GetProp(runs[id].def, Prop.description)
               /\ GetProp(a, Prop.source) = runs[id].source

\* a step of a delete(K) call (its start or the settling of one of its
\* requests) for a key K no ingestion was attempted with, no request failing
DeleteOfUnknownKeySteps(id) ==
  /\ runs'[id].op = "delete" /\ runs'[id] # runs[id]
  /\ runs'[id].arg.s \notin attempted
  /\ faults' = faults

\* C7 as stated: delete(K) of a never-ingested key K ends without error and
\* changes neither store
C7_DeleteUnknownKey ==
  [][\A id \in RunIds :
       DeleteOfUnknownKeySteps(id)
       => /\ runs'[id].outcome \in {"none", "success"}
          /\ db' = db]_vars

\* C7: delete(K) of a never-ingested key K that is not empty, is not a
\* reserved name and is accepted by validateString when the call is made ends
\* without error and changes neither store
C7_DeleteUnknownValidKey ==
  [][\A id \in RunIds :
       (/\ DeleteOfUnknownKeySteps(id)
        /\ runs'[id].arg.s # <<>>
        /\ ~IsReservedName(runs'[id].arg.s)
        /\ runs'[id].call # runs[id].call
             => validateString(runs'[id].arg, MAX_KEY_LENGTH, lastIndex).isValid)
       => /\ runs'[id].outcome \in {"none", "success"}
          /\ runs'[id].pc = "done" => runs'[id].outcome = "success"
          /\ db' = db]_vars

\* C7 happens: a delete of a never-ingested key has ended while another
\* extension and its images were stored
C7_Witness ==
  \E id \in RunIds :
    /\ runs[id].op = "delete" /\ runs[id].pc = "done"
    /\ runs[id].outcome = "success"
    /\ runs[id].arg.s \notin attempted
    /\ getAbstracts # {} /\ db[IMAGES_STORE] # {}

\* C8: in delete(K), once the clear of the ImageRecords has failed, the
\* delete of the AbstractRecord has been issued
C8_AbstractDeleteAfterFailedClear ==
  \A id \in RunIds :
    (runs[id].op = "delete" /\ runs[id].clear = "failed")
    => runs[id].abstract # "none"

\* C9: a clearIndex(images, "avatarKey", X) that succeeds leaves no record
\* whose avatarKey is X and keeps every record whose avatarKey is not X
C9_ClearIndexRemovesAll ==
  [][\A id \in RunIds :
       (/\ runs'[id].op = "clearIndex" /\ runs'[id].call = calls + 1
        /\ runs'[id].outcome = "success")
       => /\ ImagesOf(db'[IMAGES_STORE], runs'[id].arg.key) = {}
          /\ \A e \in db[IMAGES_STORE] :
               GetProp(e.v, Prop.avatarKey) # runs'[id].arg.key
               => e \in db'[IMAGES_STORE]]_vars

\* C10: a get(store, k) that directly follows a successful put(store, r, k)
\* succeeds and returns sanitizeObject(r)
C10_PutGetRoundTrip ==
  [][\A id \in RunIds :
       (/\ runs[id].op = "put" /\ runs[id].outcome = "success"
        /\ runs[id].arg.key.t # "undef"
        /\ runs'[id].op = "get" /\ runs'[id].call = runs[id].call + 1
        /\ runs'[id].arg.store = runs[id].arg.store
        /\ runs'[id].arg.key = runs[id].arg.key)
       => /\ runs'[id].outcome = "success"
          /\ sanitizeObject(runs[id].arg.value, 0, lastIndex).ok
          /\ runs'[id].result = sanitizeObject(runs[id].arg.value, 0, lastIndex).val]_vars

\* the calls of the log made before call i on the key of call i
Earlier(i) == {j \in 1..(i - 1) : rateLog[j].key = rateLog[i].key}
\* the end of the window opened by the first call on the key of call i
WindowEnd(i) ==
  rateLog[CHOOSE j \in Earlier(i) \cup {i} : \A k \in Earlier(i) : j <= k].t
    + DEFAULT_WINDOW_MS
\* call i and the calls before it on its key were made with the limit of
\* call i inside the window the first of them opened
InFirstWindow(i) ==
  \A j \in Earlier(i) \cup {i} :
    rateLog[j].t <= WindowEnd(i) /\ rateLog[j].limit = rateLog[i].limit
\* call i is the first call on its key made after that window
FirstAfterWindow(i) ==
  /\ rateLog[i].t > WindowEnd(i)
  /\ \A j \in Earlier(i) : rateLog[j].t <= WindowEnd(i)
\* what C11 says of the calls with the limits in the set ns
RateLimitCounts(ns) ==
  \A i \in 1..Len(rateLog) :
    /\ (rateLog[i].limit \in ns /\ InFirstWindow(i))
         => /\ Cardinality(Earlier(i)) < rateLog[i].limit => rateLog[i].allowed
            /\ Cardinality(Earlier(i)) = rateLog[i].limit => ~rateLog[i].allowed
    /\ (rateLog[i].limit \in ns /\ FirstAfterWindow(i)) => rateLog[i].allowed

\* C11 as stated: for every key and every limit n (0 included), of the calls
\* made on a fresh key inside one window the first n return true and the
\* (n+1)th returns false, and the first call after the window returns true
C11_EveryLimit == RateLimitCounts(RateLimits)

\* C11: for every key and every limit n >= 1, of the calls made on a fresh key
\* inside one window the first n return true and the (n+1)th returns false,
\* and the first call after the window returns true
C11_PositiveLimit == RateLimitCounts(RateLimits \ {0})

\* C11 happens: two calls with limit 2 were allowed, the third in the same
\* window was refused and a later call after the window was allowed
C11_Witness ==
  /\ Len(rateLog) = 4
  /\ \A i \in 1..4 : rateLog[i].key = Sample.av /\ rateLog[i].limit = 2
  /\ InFirstWindow(3) /\ ~rateLog[3].allowed
  /\ FirstAfterWindow(4) /\ rateLog[4].allowed

\* the results checkRateLimit gives for the calls cs made alone, in their
\* order, starting from the map rl
RECURSIVE ReplayFrom(_, _, _)
ReplayFrom(cs, i, rl) ==
  IF i > Len(cs) THEN <<>>
  ELSE With(checkRateLimit(cs[i].key, cs[i].limit, DEFAULT_WINDOW_MS, rl, cs[i].t),
            LAMBDA c : <<c.allowed>> \o ReplayFrom(cs, i + 1, c.rl))
\* the calls of the log on key k
CallsOn(k) == SelectSeq(rateLog, LAMBDA c : c.key = k)
\* every call on k returned what it returns when the calls on the other keys
\* are left out, and the first call on k was allowed
SameAsAlone(k) ==
  /\ ReplayFrom(CallsOn(k), 1, <<>>) = [i \in 1..Len(CallsOn(k)) |-> CallsOn(k)[i].allowed]
  /\ Len(CallsOn(k)) > 0 => CallsOn(k)[1].allowed

\* C12: a call of checkRateLimit on one key leaves the entry of every other
\* key as it was (absent or unchanged); the calls on a key return what they
\* return without the calls on the other keys, and a key never seen before
\* is allowed
C12_KeysIndependent ==
  [][rateLog' # rateLog
       => \A k \in RateKeys :
            /\ k # rateLog'[Len(rateLog')].key
                 => /\ (k \in DOMAIN rateLimitMap') = (k \in DOMAIN rateLimitMap)
                    /\ k \in DOMAIN rateLimitMap => rateLimitMap'[k] = rateLimitMap[k]
            /\ SameAsAlone(k)']_vars

\* C12 happens: a call on one key was refused and the next call, on another
\* key seen before, was decided by that key's own count
C12_Witness ==
  /\ Len(rateLog) = 4
  /\ rateLog[1].key = Sample.bv /\ rateLog[1].limit = 2
  /\ rateLog[2].key = Sample.av /\ rateLog[3].key = Sample.av
  /\ ~rateLog[3].allowed
  /\ rateLog[4].key = Sample.bv /\ rateLog[4].limit = 2 /\ rateLog[4].allowed
  /\ rateLog[4].t = rateLog[1].t

(***************************************************************************)
(* sanitizeObject and the reserved keys                                    *)
(***************************************************************************)
\* key equals a member of the reserved-key set, letter case ignored
IsReservedKeyAnyCase(key) ==
  toLowerCase(key) \in {toLowerCase(d) : d \in DANGEROUS_KEYS}

RECURSIVE ReservedAt(_)
\* the positions of value v that hold a reserved own key: each the path of
\* property names and array indices from v down to the key
ReservedAt(v) ==
  IF v.t = "obj"
    THEN UNION { (IF IsReservedKeyAnyCase(v.props[i][1])
                    THEN { << [key |-> v.props[i][1], idx |-> 0] >> } ELSE {})
                 \cup { << [key |-> v.props[i][1], idx |-> 0] >> \o p :
                          p \in ReservedAt(v.props[i][2]) } :
                 i \in 1..Len(v.props) }
  ELSE IF v.t = "arr"
    THEN UNION { { << [key |-> <<>>, idx |-> i] >> \o p : p \in ReservedAt(v.items[i]) } :
                 i \in 1..Len(v.items) }
  ELSE {}

\* the calls of sanitizeObject that returned a value
Sanitized(id) ==
  runs[id].op = "sanitizeObject" /\ runs[id].outcome = "success"

\* C13: whenever sanitizeObject returns a value, no reserved key (any member
\* of the reserved-key set, in any letter case) that is an own key of the input
\* at some position is a key of the returned value at that position.
C13_NoReservedKeyInOutput ==
  \A id \in RunIds :
    Sanitized(id) =>
      ReservedAt(runs[id].arg) \cap ReservedAt(runs[id].result) = {}


RECURSIVE StripReserved(_)
\* v without its reserved own keys, at every depth
StripReserved(v) ==
  IF v.t = "obj"
    THEN Obj([i \in 1..Len(SelectSeq(v.props, LAMBDA e : ~IsReservedKeyAnyCase(e[1]))) |->
                << SelectSeq(v.props, LAMBDA e : ~IsReservedKeyAnyCase(e[1]))[i][1],
                   StripReserved(SelectSeq(v.props, LAMBDA e : ~IsReservedKeyAnyCase(e[1]))[i][2]) >>])
  ELSE IF v.t = "arr"
    THEN Arr([i \in 1..Len(v.items) |-> StripReserved(v.items[i])])
  ELSE v

\* C14: sanitizeObject strips reserved keys silently: called with a value that
\* has reserved own keys (at the top or nested) it does not raise, and it
\* returns what it returns for the same value without its reserved keys, so
\* every ordinary sibling key and every enclosing object is retained.
C14_StripsReservedKeysSilently ==
  [][\A id \in RunIds, v \in SanValues :
       SanitizeObjectCall(id, v) /\ ReservedAt(v) # {} =>
         /\ runs'[id].outcome = "success"
         /\ sanitizeObject(StripReserved(v), 0, lastIndex).ok
         /\ runs'[id].result = sanitizeObject(StripReserved(v), 0, lastIndex).val]_vars

(***************************************************************************)
(* sanitizeObject and the limits of depth and array length                 *)
(***************************************************************************)
\* the largest of the naturals in S, 0 when there is none
MaxOf(S) == IF S = {} THEN 0 ELSE CHOOSE m \in S : \A n \in S : n <= m

RECURSIVE Depth(_)
\* the nesting depth of v: the depth argument of the deepest call sanitizeObject
\* makes on a part of v when nothing stops it, the top being at depth 0
Depth(v) ==
  IF v.t = "obj" /\ v.props # <<>>
    THEN 1 + MaxOf({Depth(v.props[i][2]) : i \in 1..Len(v.props)})
  ELSE IF v.t = "arr" /\ v.items # <<>>
    THEN 1 + MaxOf({Depth(v.items[i]) : i \in 1..Len(v.items)})
  ELSE 0

RECURSIVE HasLongArray(_)
\* v is or contains an array of more than MAX_ARRAY_LENGTH items
HasLongArray(v) ==
  IF v.t = "obj" THEN \E i \in 1..Len(v.props) : HasLongArray(v.props[i][2])
  ELSE IF v.t = "arr"
    THEN Len(v.items) > MAX_ARRAY_LENGTH \/ \E i \in 1..Len(v.items) : HasLongArray(v.items[i])
  ELSE FALSE

ExceedsLimits(v) == Depth(v) > MAX_OBJECT_DEPTH \/ HasLongArray(v)

\* C15: sanitizeObject raises an error to its caller for every value nested
\* deeper than MAX_OBJECT_DEPTH and for every value holding an array longer
\* than MAX_ARRAY_LENGTH, wherever in the value the excess is (inside arrays
\* or inside object properties), and returns normally for the values at the
\* limit.
C15_LimitsAreFatal ==
  \A id \in RunIds :
    runs[id].op = "sanitizeObject" /\ runs[id].arg \in SanLimitValues =>
      IF ExceedsLimits(runs[id].arg)
        THEN runs[id].outcome = "threw"
        ELSE runs[id].outcome = "success"

\* C16: sanitizeObject applied to a cyclic structure raises an error; it never
\* returns a value for a cyclic input.
C16_CyclicInputIsFatal ==
  \A id \in RunIds :
    runs[id].op = "sanitizeObject" /\ runs[id].arg = CyclicObj =>
      runs[id].outcome = "threw"

(***************************************************************************)
(* validateObjectKeys                                                      *)
(***************************************************************************)
\* C17: validateObjectKeys(obj) returns invalid for every object with an own
\* key that equals, letter case ignored, a member of the reserved-key set
\* (toString, valueOf, hasOwnProperty and the accessor-definition names
\* included), and returns valid only when no own key matches.
C17_ReservedKeyIsInvalid ==
  \A id \in RunIds :
    runs[id].op = "validateObjectKeys" /\ runs[id].arg.t = "obj" =>
      (runs[id].valid = "invalid" <=>
         \E i \in 1..Len(runs[id].arg.props) :
           IsReservedKeyAnyCase(runs[id].arg.props[i][1]))

(***************************************************************************)
(* DatabaseService: reserved keys                                          *)
(***************************************************************************)
\* the string keys equal to a reserved name
ReservedKeys == {Str(n) : n \in RESERVED_NAMES}

\* C18: get, put (with an explicit key) and delete called with a string key
\* equal to a reserved name (__proto__, constructor, prototype, toString,
\* valueOf) are rejected, no request is issued to the engine and the content
\* of the stores is unchanged.
C18_ReservedKeyRejected ==
  [][\A id \in RunIds, n \in StoreNames, k \in ReservedKeys :
       (\/ DbGet(id, n, k)
        \/ DbDelete(id, n, k)
        \/ \E r \in DbRecords : DbPut(id, n, r, k)) =>
         /\ runs'[id].outcome = "threw"
         /\ runs'[id].issued = 0
         /\ db' = db]_vars

(***************************************************************************)
(* DatabaseService.getDatabase: the names of stores and indexes            *)
(***************************************************************************)
\* the allow-list for names: alphanumeric, underscore and hyphen only, at most
\* 64 characters, not a reserved name (letter case ignored)
NameAllowed(name) ==
  /\ name # <<>>
  /\ \A i \in 1..Len(name) : IsWordChar(name[i]) \/ name[i] = "-"
  /\ Len(name) <= MAX_STORE_NAME_LENGTH
  /\ toLowerCase(name) \notin {toLowerCase(r) : r \in RESERVED_NAMES}

\* the store names and index names a stores argument declares
DeclaredNames(stores) ==
  UNION { {GetProp(stores.items[i], Prop.name).s}
          \cup (IF GetProp(stores.items[i], DbText.indexes).t = "arr"
                  THEN { GetProp(GetProp(stores.items[i], DbText.indexes).items[j],
                                 Prop.name).s :
                         j \in 1..Len(GetProp(stores.items[i], DbText.indexes).items) }
                  ELSE {}) :
          i \in 1..Len(stores.items) }

\* C19: getDatabase fails before it opens the engine whenever a declared store
\* name or index name is not on the allow-list (alphanumeric, underscore and
\* hyphen only, at most 64 characters, not a reserved name); it opens the
\* engine only when every store name and every index name is.
C19_NamesCheckedBeforeOpen ==
  \A id \in RunIds :
    runs[id].op = "open" =>
      ((\E n \in DeclaredNames(runs[id].arg.value) : ~NameAllowed(n)) =>
         runs[id].outcome = "threw" /\ runs[id].issued = 0)

(***************************************************************************)
(* DatabaseService: what a caller learns from a failure of the engine      *)
(***************************************************************************)
\* C20: when the engine fails, the failure an operation of the Object Store
\* (open, get, put, delete, getAll, getAllKeys, clear, clearIndex) delivers to
\* its caller is fixed by the operation: two calls of the same operation with
\* the same arguments in the same stores, failed by the engine, deliver the
\* same failure whatever the error of the engine was, and the event of the
\* engine is never what is delivered.
C20_FailureIsGeneric ==
  [][\A id \in RunIds :
       runs'[id].outcome = "error" =>
         /\ runs'[id].result.t # "event"
         /\ (/\ runs[id].outcome = "error"
             /\ runs[id].op = runs'[id].op
             /\ runs[id].arg = runs'[id].arg
             /\ db' = db)
            => /\ runs'[id].message = runs[id].message
               /\ runs'[id].result = runs[id].result]_vars

(***************************************************************************)
(* The validators: purity and the shape of the result                      *)
(***************************************************************************)
\* C21: the validators are pure: validateString(s) and validateAvatarManifest(m)
\* return the same result whatever validator calls were made before, which
\* is the result of the first call made on a new SecurityService; so a
\* string rejected for an injection pattern is rejected on every later call.
C21_ValidatorsArePure ==
  [][/\ \A id \in RunIds, v \in StringValues :
          ValidateStringCall(id, v) =>
            runs'[id].result =
              ResultOf(validateString(v, MAX_STRING_LENGTH, FreshLastIndex))
     /\ \A id \in RunIds, m \in ManifestValues :
          ValidateManifestCall(id, m) =>
            runs'[id].result = ResultOf(validateAvatarManifest(m, FreshLastIndex))]_vars

\* the validators whose result is a ValidationResult
Validators ==
  {"validateString", "validateObjectKeys", "validateFile", "validateUrl",
   "validateAvatarManifest"}

\* C22: every ValidationResult returned by validateString, validateObjectKeys,
\* validateFile, validateUrl and validateAvatarManifest has isValid true
\* exactly when errors is empty, and carries no sanitizedValue when isValid is
\* false.
C22_ResultShape ==
  \A id \in RunIds :
    runs[id].op \in Validators /\ runs[id].outcome = "success" =>
      /\ runs[id].result.isValid <=> runs[id].result.errors = <<>>
      /\ ~runs[id].result.isValid => "sanitizedValue" \notin DOMAIN runs[id].result

\* the second call made rejected a manifest, with errors and without a
\* sanitized value
C22_Witness ==
  /\ calls = 2
  /\ \E id \in RunIds :
       /\ runs[id].op = "validateAvatarManifest"
       /\ runs[id].arg = Manifest(Sample.inj, Sample.d, <<ImgStd>>)
       /\ ~runs[id].result.isValid
       /\ Len(runs[id].result.errors) > 0
       /\ "sanitizedValue" \notin DOMAIN runs[id].result

(***************************************************************************)
(* Ingestion: outcomes and the order of the steps                          *)
(***************************************************************************)
\* C23: a call of download or import is single-shot: it delivers exactly one
\* terminal outcome to its caller, one success value or one error, never
\* several success values, for any number of manifest files.
C23_SingleShot ==
  \A id \in RunIds :
    runs[id].op \in {"download", "import"} =>
      /\ runs[id].emitted <= 1
      /\ runs[id].outcome = "error" => runs[id].emitted = 0
      /\ runs[id].outcome = "success" => runs[id].emitted = 1

\* the ingestion runs
Ingestions == {id \in RunIds : runs[id].op \in {"download", "import"}}

\* C24: within one ingestion run the write of the AbstractRecord is started
\* only after the clear of the old ImageRecords of the manifest key has
\* completed successfully; so when the clear fails, the run writes no
\* AbstractRecord.
C24_ClearPrecedesAbstract ==
  \A id \in Ingestions :
    /\ runs[id].abstract # "none" => runs[id].clear = "ok"
    /\ runs[id].clear = "failed" => runs[id].abstract # "ok"

\* C25: within one ingestion run no image fetch is issued and no ImageRecord
\* is written before the clear of the old ImageRecords of the manifest key
\* has completed: every image write of the run is issued after that clear, so
\* the clear of a run never deletes a record the same run wrote.
C25_ClearPrecedesImages ==
  /\ \A id \in Ingestions :
       (\E i \in 1..Len(runs[id].imgs) :
          runs[id].imgs[i].st \in {"fetching", "putting", "stored"})
         => runs[id].clear = "ok"
  /\ \A i, j \in 1..Len(pending) :
       ~(/\ pending[i].tag = "clear" /\ pending[j].tag = "image"
         /\ pending[i].run = pending[j].run /\ pending[i].call = pending[j].call)

\* a run has cleared the old images, then fetched and stored an image
C25_Witness ==
  \E id \in Ingestions :
    /\ runs[id].clear = "ok"
    /\ \E i \in 1..Len(runs[id].imgs) :
         runs[id].imgs[i].kind = "url" /\ runs[id].imgs[i].st = "stored"
    /\ db[IMAGES_STORE] # {}

\* the steps of one asset: Pending, Fetching or Reading, the put, and the two
\* ends; no step leads back
AssetStep(a, b) ==
  \/ a = b
  \/ a = "waiting" /\ b \in {"fetching", "putting", "skipped", "cancelled"}
  \/ a = "fetching" /\ b \in {"putting", "skipped", "cancelled"}
  \/ a = "putting" /\ b \in {"stored", "skipped"}

\* C26: there is no retry: within one ingestion run the manifest is fetched at
\* most once, each declared image is fetched or read at most once, and an
\* asset whose fetch, size check, validation or write fails goes to Skipped
\* and is never attempted again.
C26_NoRetry ==
  [][\A id \in RunIds :
       runs'[id].call = runs[id].call =>
         /\ runs'[id].pc = "fetchManifest" => runs[id].pc = "fetchManifest"
         /\ runs'[id].pc = "reading" => runs[id].pc = "reading"
         /\ runs[id].imgs # <<>> =>
              /\ Len(runs'[id].imgs) = Len(runs[id].imgs)
              /\ \A i \in 1..Len(runs[id].imgs) :
                   AssetStep(runs[id].imgs[i].st, runs'[id].imgs[i].st)]_vars

\* an image whose fetch failed was skipped, its sibling was stored, and the run
\* has ended with success
C26_Witness ==
  \E id \in Ingestions :
    /\ runs[id].outcome = "success"
    /\ \E i, j \in 1..Len(runs[id].imgs) :
         /\ runs[id].imgs[i].kind = "url" /\ runs[id].imgs[i].st = "skipped"
         /\ runs[id].imgs[i].got = Undef
         /\ runs[id].imgs[j].st = "stored"

(***************************************************************************)
(* Ingestion: the rate limits and the size limit                           *)
(***************************************************************************)
\* the keys requests were decided on
DecidedKeys == {rateLog[i].key : i \in 1..Len(rateLog)}

\* of the requests cs on one key, oldest first, from request i on: no window
\* sees more requests sent than the limit allows, the window that is open
\* having started at start with n requests sent (start < 0: none is open)
RECURSIVE SentWithinLimit(_, _, _, _)
SentWithinLimit(cs, i, start, n) ==
  IF i > Len(cs) THEN TRUE
  ELSE LET fresh == start < 0 \/ cs[i].t > start + DEFAULT_WINDOW_MS
           sent == (IF fresh THEN 0 ELSE n) + (IF cs[i].allowed THEN 1 ELSE 0)
       IN /\ sent <= cs[i].limit
          /\ SentWithinLimit(cs, i + 1, IF fresh THEN cs[i].t ELSE start, sent)

RateLimitMessage == "Rate limit exceeded for download requests"

\* C27: over any sequence of download calls inside one rate-limit window at
\* most 10 manifest requests are sent for one URL and at most 50 image
\* requests for one asset URL; a download beyond the limit fails with the
\* rate-limit error without a request, an image beyond the limit is skipped,
\* and a download whose URL fails validation consumes no budget.
C27_FetchesWithinLimits ==
  /\ \A k \in DecidedKeys :
       /\ SentWithinLimit(CallsOn(k), 1, -1, 0)
       /\ \A i \in 1..Len(CallsOn(k)) :
            CallsOn(k)[i].limit = IF SubSeq(k, 1, Len(RatePrefix.image)) = RatePrefix.image
                                    THEN IMAGE_LIMIT ELSE DOWNLOAD_LIMIT
  /\ \A id \in RunIds :
       /\ runs[id].message = RateLimitMessage
            => /\ runs[id].outcome = "error" /\ runs[id].pc = "done"
               /\ runs[id].raw = Undef /\ runs[id].imgs = <<>>
       /\ runs[id].message = "Invalid URL" => runs[id].raw = Undef
  /\ \A url \in DownloadUrls :
       ~validateUrl(Str(url)).isValid
         => RatePrefix.download \o url \notin DOMAIN rateLimitMap

\* the requests sent on key k at the instant t
SentAt(k, t) ==
  Len(SelectSeq(rateLog, LAMBDA c : c.key = k /\ c.t = t /\ c.allowed))

\* inside one window ten manifest requests were sent for the URL and the
\* eleventh download failed with the rate-limit error; fifty image requests
\* were sent for the asset URL and further images of that URL were skipped
C27_Witness ==
  /\ SentAt(RatePrefix.download \o Url.manifest, 0) = DOWNLOAD_LIMIT
  /\ \E i \in 1..Len(rateLog) :
       /\ rateLog[i].limit = IMAGE_LIMIT
       /\ rateLog[i].t = 0 /\ ~rateLog[i].allowed
       /\ SentAt(rateLog[i].key, 0) = IMAGE_LIMIT
  /\ now = 0
  /\ \E id \in RunIds : runs[id].message = RateLimitMessage

\* the requests sent in the latest window of the requests cs on one key
RECURSIVE SentInWindow(_, _, _, _)
SentInWindow(cs, i, start, n) ==
  IF i > Len(cs) THEN n
  ELSE LET fresh == start < 0 \/ cs[i].t > start + DEFAULT_WINDOW_MS
       IN SentInWindow(cs, i + 1, IF fresh THEN cs[i].t ELSE start,
                       (IF fresh THEN 0 ELSE n) + (IF cs[i].allowed THEN 1 ELSE 0))

\* image i of the run was refused by the rate limit: its URL is valid, the
\* requests its URL is allowed in the window have been sent, and it was
\* skipped without a request (it resolved to nothing)
Throttled(run, i) ==
  /\ run.imgs[i].kind = "url" /\ run.imgs[i].st = "skipped"
  /\ run.imgs[i].got = Undef
  /\ LET source == GetProp(GetProp(run.def, Prop.images).items[i], Prop.source)
     IN /\ validateUrl(source).isValid
        /\ SentInWindow(CallsOn(RatePrefix.image \o source.s), 1, -1, 0) = IMAGE_LIMIT

\* the image record (of the images stored since the last clear) of image i
StoredOf(run, i) ==
  {f \in stored : /\ f.avatarKey = GetProp(run.def, Prop.key)
                  /\ f.key = GetProp(GetProp(run.def, Prop.images).items[i], Prop.key)}

\* C28: when the rate limiter refuses an image of an ingestion only that image
\* is skipped: every other image of the manifest is fetched and stored, and
\* the ingestion completes with success.
C28_OnlyThrottledSkipped ==
  \A id \in Ingestions :
    (\E i \in 1..Len(runs[id].imgs) : Throttled(runs[id], i))
      => /\ runs[id].outcome # "error"
         /\ \A j \in 1..Len(runs[id].imgs) :
              IF Throttled(runs[id], j) THEN StoredOf(runs[id], j) = {}
              ELSE runs[id].imgs[j].st \in {"fetching", "putting", "stored"}
         /\ runs[id].pc = "done"
              => /\ runs[id].outcome = "success"
                 /\ \A j \in 1..Len(runs[id].imgs) :
                      ~Throttled(runs[id], j)
                        => /\ runs[id].imgs[j].st = "stored"
                           /\ \E f \in StoredOf(runs[id], j) : f.blob = runs[id].imgs[j].got
                 /\ Cardinality(db[IMAGES_STORE])
                      = Cardinality({j \in 1..Len(runs[id].imgs) : ~Throttled(runs[id], j)})

\* an ingestion has ended with success with some images refused by the rate
\* limit, an image declared after them stored and an image before them stored
C28_Witness ==
  \E id \in Ingestions :
    /\ runs[id].pc = "done" /\ runs[id].outcome = "success"
    /\ \E i, j, k \in 1..Len(runs[id].imgs) :
         /\ i < j /\ j < k
         /\ runs[id].imgs[i].st = "stored"
         /\ Throttled(runs[id], j)
         /\ runs[id].imgs[k].st = "stored" /\ StoredOf(runs[id], k) # {}

\* C29: when 15 downloads of 15 distinct manifest URLs are started in quick
\* succession inside one rate-limit window, the download rate limit rejects at
\* least one of them with an error.
C29_BurstIsLimited ==
  ( /\ Len(rateLog) = BurstSize
    /\ \A i, j \in 1..Len(rateLog) : i # j => rateLog[i].key # rateLog[j].key
    /\ now <= DEFAULT_WINDOW_MS )
    => \E i \in 1..Len(rateLog) : ~rateLog[i].allowed

\* image i of the run resolved to bytes larger than MAX_FILE_SIZE
Oversize(run, i) == run.imgs[i].got # Undef /\ run.imgs[i].got.size > MAX_FILE_SIZE

\* C30: no ImageRecord is ever stored for bytes larger than 10 MiB: a fetched
\* image or local file larger than the limit is skipped without any put, one
\* of exactly 10 MiB is accepted, and the ingestion still completes with
\* success.
C30_SizeLimit ==
  /\ \A f \in stored : f.blob.size <= MAX_FILE_SIZE
  /\ \A id \in Ingestions :
       \* the files loadExtension reads the local images from
       /\ \A n \in 1..Len(runs[id].files) :
            runs[id].pc # "reading" => runs[id].files[n].size <= MAX_FILE_SIZE
       /\ \A i \in 1..Len(runs[id].imgs) :
            /\ Oversize(runs[id], i) => runs[id].imgs[i].st = "skipped"
            \* bytes within the limit are put: only a failed put skips them
            /\ ( /\ runs[id].imgs[i].got # Undef /\ ~Oversize(runs[id], i)
                 /\ runs[id].imgs[i].st = "skipped" ) => faults > 0
       \* an oversize image does not fail the ingestion
       /\ ( /\ \E i \in 1..Len(runs[id].imgs) : Oversize(runs[id], i)
            /\ runs[id].outcome = "error" )
            => runs[id].clear = "failed" \/ runs[id].abstract = "failed"
  /\ \A r \in 1..Len(pending) :
       ( /\ pending[r].tag = "image"
         /\ runs[pending[r].run].call = pending[r].call )
         => ~Oversize(runs[pending[r].run], pending[r].idx)

\* a local file and a fetched image of exactly MAX_FILE_SIZE bytes have been
\* stored, and a download one of whose images was larger has ended with success
C30_Witness ==
  /\ \E f, g \in stored :
       /\ f.blob.t = "file" /\ f.blob.size = MAX_FILE_SIZE
       /\ g.blob.t = "blob" /\ g.blob.size = MAX_FILE_SIZE
  /\ \E id \in Ingestions :
       /\ runs[id].outcome = "success"
       /\ \E i \in 1..Len(runs[id].imgs) :
            Oversize(runs[id], i) /\ runs[id].imgs[i].st = "skipped"

(***************************************************************************)
(* Ingestion: replay, acceptance, how failures are reported                *)
(***************************************************************************)
\* C31: ingestion is idempotent under replay: running the same ingestion a
\* second time after the first completed, or after the first was interrupted
\* at any point, leaves the abstracts and images stores in the state of one
\* complete run, and the second run has the outcome of the first.
C31_ReplayIdempotent ==
  (runs[2].pc = "done" /\ runs[1].op = "download") =>
    /\ runs[1].outcome # "none"
         => /\ runs[2].outcome = runs[1].outcome
            /\ runs[2].message = runs[1].message
    /\ (runs[2].outcome = "success" /\ pending = <<>>) =>
         /\ Cardinality(db[ABSTRACTS_STORE]) = 1
         /\ \A e \in db[ABSTRACTS_STORE] : GetProp(e.v, Prop.key) = GetProp(runs[2].def, Prop.key)
         /\ Cardinality(db[IMAGES_STORE])
              = Cardinality({i \in 1..Len(runs[2].imgs) : runs[2].imgs[i].st = "stored"})
         /\ \A e \in db[IMAGES_STORE] :
              \E i \in 1..Len(runs[2].imgs) :
                /\ runs[2].imgs[i].st = "stored"
                /\ GetProp(e.v, Prop.key)
                     = GetProp(GetProp(runs[2].def, Prop.images).items[i], Prop.key)

\* the page was reloaded when the first download had stored an image, and the
\* replay, one of whose image requests failed, has ended with success
C31_Witness ==
  /\ runs[1].op = "download" /\ runs[2].outcome = "success" /\ pending = <<>>
  /\ runs[1].outcome = "none" /\ runs[1].pc = "done"
  /\ \E i \in 1..Len(runs[1].imgs) : runs[1].imgs[i].st = "stored"
  /\ \E i, j \in 1..Len(runs[2].imgs) :
       runs[2].imgs[i].st = "stored" /\ runs[2].imgs[j].st = "skipped"
  /\ Cardinality(db[IMAGES_STORE]) = 1


\* C32: every manifest accepted by validateAvatarManifest can be ingested:
\* when it returns valid (a manifest without an images field included) and no
\* storage operation fails, the ingestion completes with success and writes
\* the AbstractRecord; a fatal outcome after validation needs a storage error.
C32_ValidManifestIngests ==
  \A id \in Ingestions :
    runs[id].valid = "valid" =>
      /\ runs[id].outcome = "error"
           => runs[id].clear = "failed" \/ runs[id].abstract = "failed"
      /\ (runs[id].pc = "done" /\ faults = 0) => runs[id].outcome = "success"

\* C33: every failure of download, import, getAbstracts, getImage and delete
\* is reported through the returned Observable/Promise as a sanitized error;
\* none of them throws synchronously to its caller for any string arguments
\* (an empty key and a reserved image key such as "constructor" included).
C33_NoSynchronousThrow ==
  \A id \in RunIds :
    /\ runs[id].outcome # "threw"
    /\ runs[id].op \in {"download", "import", "getImage", "delete"}
         => (runs[id].outcome = "error" => runs[id].message # "")

\* the messages of the failed calls that contain the word "Invalid"
NamesInvalidInput(message) ==
  message \in {"Invalid URL", "Invalid avatar key", "Invalid image key", "Invalid key"}

\* the manifest files an import was called with
FilesOf(run) ==
  IF run.arg.t = "arr" THEN {run.arg.items[j] : j \in 1..Len(run.arg.items)}
  ELSE IF run.arg.t = "file" THEN {run.arg} ELSE {}

\* C34: when a download is rejected because its manifest fails validation, or
\* an import because its manifest file fails file validation, the error the
\* caller gets names the cause as invalid input: its message contains
\* "Invalid" ("Invalid file" for the import).
C34_InvalidInputIsNamed ==
  \A id \in RunIds :
    /\ (runs[id].op = "download" /\ runs[id].valid = "invalid")
         => (runs[id].outcome = "error" /\ NamesInvalidInput(runs[id].message))
    /\ ( /\ runs[id].op = "import"
         /\ \E f \in FilesOf(runs[id]) : ~validateFile(f).isValid )
         => (runs[id].outcome = "error" /\ NamesInvalidInput(runs[id].message))

(***************************************************************************)
(* The stores: referential integrity, concurrent ingestions                *)
(***************************************************************************)
\* no call is under way and the engine has no request left
AtRest == pending = <<>> /\ \A id \in DOMAIN runs : runs[id].pc \in {"idle", "done"}

Orphans ==
  {e \in db[IMAGES_STORE] :
     \A a \in db[ABSTRACTS_STORE] : GetProp(a.v, Prop.key) # GetProp(e.v, Prop.avatarKey)}

\* C35: in every state where no ingestion or delete is in flight, every
\* ImageRecord of the images store has the avatarKey of some AbstractRecord of
\* the abstracts store: no orphan images after a failed ingestion or a delete.
C35_NoOrphanImages == AtRest => Orphans = {}

\* the image keys a manifest declares
DeclaredKeys(m) ==
  {GetProp(GetProp(m, Prop.images).items[i], Prop.key) :
     i \in 1..Len(GetProp(m, Prop.images).items)}

\* the image keys stored under the extension key k
StoredKeys(k) ==
  {GetProp(e.v, Prop.key) : e \in {x \in db[IMAGES_STORE] : GetProp(x.v, Prop.avatarKey) = k}}

\* C36: when two ingestions of the same extension key with different image
\* sets A and B run concurrently and both complete with success, the
\* ImageRecords stored under that key are exactly A or exactly B, never a
\* mixture of the two.
C36_NoMixture ==
  ( /\ \A id \in PairIds : runs[id].op = "download" /\ runs[id].outcome = "success"
    /\ pending = <<>> )
    => \E id \in PairIds : StoredKeys(Str(Sample.av)) = DeclaredKeys(PairManifest(id))

(***************************************************************************)
(* Sanitization applied twice                                              *)
(***************************************************************************)

\* C37: sanitization is idempotent: when sanitizeObject has returned r for a
\* value, sanitizeObject(r) returns a value equal to r, and when validateString
\* has accepted a string, its sanitizedValue is accepted too and sanitizes to
\* itself.
C37_SanitizeIdempotent ==
  /\ runs[2].op = "sanitizeObject" =>
        runs[2].outcome = "success" /\ runs[2].result = runs[1].result
  /\ runs[2].op = "validateString" =>
        /\ runs[2].valid = "valid"
        /\ runs[2].result.sanitizedValue = runs[1].result.sanitizedValue

(***************************************************************************)
(* The characters reducer                                                  *)
(***************************************************************************)
ReducerOps ==
  {"addCharacter", "removeCharacter", "setCurrentCharacter", "adjustStat",
   "improveRelationship", "updateStoryProgress", "completeStoryMilestone"}

\* the properties of a state other than its characters map
OutsideCharacters(state) ==
  SelectSeq(Entries(state), LAMBDA e : e[1] \notin {CharProp.characters, CharProp.current})

\* C38: the characters reducer never mutates its input: after
\* reducer(s, action) the state s and the characters reachable from it have the
\* field values they had before the call, and what has changed in the returned
\* state is inside its characters map (or, for setCurrentCharacter, current).
C38_InputNotMutated ==
  runs[1].op \in ReducerOps =>
    /\ runs[1].result.input = runs[1].arg.state
    /\ ~runs[1].result.threw =>
         OutsideCharacters(runs[1].result.ret) = OutsideCharacters(runs[1].arg.state)

\* the character and the stat an adjustStat action names exist in the state
NamesCharacter(state, a) ==
  /\ a.characterKey.t = "str"
  /\ HasOwn(GetProp(state, CharProp.characters), a.characterKey.s)
NamesStat(state, a) ==
  /\ NamesCharacter(state, a)
  /\ HasOwn(GetProp(GetProp(GetProp(state, CharProp.characters), a.characterKey.s),
                     CharProp.stats),
            a.statKey.s)

\* C39: adjustStat raises an error, and returns no state, when the character
\* key names no existing character or the stat key is not an existing stat of
\* that character.
C39_AdjustStatRejectsUnknown ==
  ( /\ runs[1].op = "adjustStat"
    /\ ~NamesStat(runs[1].arg.state, runs[1].arg.action) )
    => runs[1].outcome = "threw"

====
